---- MODULE Spec2Model ----
(***************************************************************************)
(* Model of the document risk scoring engine, its analyzer fallback chain  *)
(* and rule-based extractors (scoring-engine.service.ts), of document type *)
(* detection (document-ingestion.service.ts), of the analyzeDocument       *)
(* pipeline, alone and twice at once, and of the routes that write the     *)
(* document store (document.routes.ts, webhook action).                    *)
(*                                                                         *)
(* Scores are JavaScript numbers.  Every contribution is weight * m with   *)
(* m in {0.25, 0.5, 0.75, 1.0} or an integer penalty, so every running     *)
(* total is an exact multiple of 0.25; the model keeps all running totals  *)
(* in QUARTER POINTS (one point = 4 quarters) and Math.round becomes       *)
(* integer arithmetic on quarters.                                         *)
(***************************************************************************)
EXTENDS Integers, Sequences, FiniteSets, TLC

\* ---------------------------------------------------------------- bounds
\* total number of items over the three input lists of the general inputs
MaxItems == 2
\* longest list built by repeating one element (Array(n).fill(x) in the tests)
MaxFill == 4
\* longest document text, in tokens
MaxTextLen == 2
\* number of uploads that get a documentId
MaxUploads == 2
\* last instant of the clock
MaxClock == 1

\* ----------------------------------------------------------------- types
RiskCategory ==
  {"missing_clause", "unfavorable_terms", "compliance_issue", "liability_exposure",
   "termination_risk", "payment_risk", "legal_ambiguity"}

RiskSeverity == {"low", "medium", "high", "critical"}

Importance == {"required", "recommended", "optional"}

RiskGrade == {"A", "B", "C", "D", "F"}

\* the fields of a risk, a missing term and a blocker that the engine reads
DocumentRisk == [category : RiskCategory, severity : RiskSeverity]

MissingTerm == [importance : Importance]

DealBlocker ==
  [type : {"missing_signature", "pending_approval", "legal_review",
           "negotiation_required", "compliance_check", "missing_document"}]

None == "none"

VARIABLES
  risks,          \* argument risks: DocumentRisk[]
  missingTerms,   \* argument missingTerms: MissingTerm[]
  blockers,       \* argument blockers: DealBlocker[]
  returned,       \* the functions of the scoring engine that have returned
  riskScore,      \* RiskScore returned by calculateRiskScore (<<>> before it returns)
  actions,        \* RequiredAction[] returned by generateRequiredActions
  text,           \* the document text (parsed.text)
  filename,       \* the name of the uploaded file
  documentType,   \* the documentType argument / local of analyzeDocument
  apiKey,         \* config.openai.apiKey is non-empty
  openaiClient,   \* the module-level openaiClient: "null" or "client"
  requests,       \* the calls of openai.chat.completions.create issued, by function
  call,           \* the analyzer function being executed and where it is
  response,       \* the outcome of the external call awaited (Pending until it settles)
  result,         \* the value the analyzer function returned
  pc,             \* where analyzeDocument is ("idle": it is not running)
  entities,       \* local entities of analyzeDocument
  summary,        \* local summary of analyzeDocument
  documentStore,  \* the Map documentStore: documentId -> DocumentAnalysis
  dealDocuments,  \* the Map dealDocuments: dealId -> documentIds[]
  uploads,        \* the upload requests whose analyzeDocument is awaited
  issued,         \* how many documentIds randomUUID has given out
  now,            \* the clock read by new Date()
  reply,          \* the last response the routes have sent
  disk,           \* the temporary files multer has stored that have not been removed
  tokenStorage,   \* the Map tokenStorage: portalId -> OAuthTokens
  authCalls,      \* the calls of the HubSpot token API that have not settled
  authReply,      \* the last outcome of requireAuth or of an OAuth route
  parked,         \* the locals of the analyzeDocument invocation that is not running
  script          \* the answers the external service holds for the running invocation

scoreVars == <<risks, missingTerms, blockers, returned, riskScore, actions>>

docVars == <<text, filename, documentType>>

analyzerVars == <<apiKey, openaiClient, requests, call, response, result>>

pipelineVars == <<pc, entities, summary>>

authVars == <<tokenStorage, authCalls, authReply>>

appVars == <<documentStore, dealDocuments, uploads, issued, now, reply, disk, authVars>>

concVars == <<parked, script>>

vars == <<scoreVars, docVars, analyzerVars, pipelineVars, appVars, concVars>>

\* ------------------------------------------------------- scoring engine
\* RISK_WEIGHTS[category] || 10
RISK_WEIGHTS(category) ==
  CASE category = "missing_clause" -> 15
    [] category = "unfavorable_terms" -> 20
    [] category = "compliance_issue" -> 25
    [] category = "liability_exposure" -> 30
    [] category = "termination_risk" -> 15
    [] category = "payment_risk" -> 20
    [] category = "legal_ambiguity" -> 10
    [] OTHER -> 10

\* the JavaScript NaN, which no score in quarter points equals: every sum, product,
\* Math.round and Math.min with a NaN operand is NaN, every comparison with it is false
NaN == -1

\* SEVERITY_MULTIPLIERS[severity], in quarters: 0.25, 0.5, 0.75, 1.0; undefined for any
\* other severity, and weight * undefined is NaN
SEVERITY_MULTIPLIERS(severity) ==
  CASE severity = "low" -> 1
    [] severity = "medium" -> 2
    [] severity = "high" -> 3
    [] severity = "critical" -> 4
    [] OTHER -> NaN

\* a + b
Plus(a, b) == IF a = NaN \/ b = NaN THEN NaN ELSE a + b

\* Math.floor in place of Math.round
MathRound_Floor(q) == q \div 4

\* Math.round of q quarter points, q >= 0: floor(q/4 + 0.5)
MathRound(q) == IF q = NaN THEN NaN ELSE (q + 2) \div 4

\* the cap forgotten: the second argument returned as it is
MathMin_NoCap(a, b) == b

MathMin(a, b) == IF a = NaN \/ b = NaN THEN NaN ELSE IF a <= b THEN a ELSE b

\* termination_risk routed with the missing clauses
BucketOf_Misrouted(category) ==
  CASE category \in {"missing_clause", "termination_risk"} -> "missingClauses"
    [] category \in {"unfavorable_terms", "payment_risk"} -> "unfavorableTerms"
    [] category \in {"compliance_issue", "legal_ambiguity"} -> "complianceIssues"
    [] category = "liability_exposure" -> "liabilityExposure"
    [] OTHER -> None

\* the switch on risk.category: the bucket a contribution is routed to
BucketOf(category) ==
  CASE category = "missing_clause" -> "missingClauses"
    [] category \in {"unfavorable_terms", "termination_risk", "payment_risk"} -> "unfavorableTerms"
    [] category \in {"compliance_issue", "legal_ambiguity"} -> "complianceIssues"
    [] category = "liability_exposure" -> "liabilityExposure"
    [] OTHER -> None

Buckets == {"missingClauses", "unfavorableTerms", "complianceIssues", "liabilityExposure"}

\* one iteration of `for (const risk of risks)`; acc = [totalScore, breakdown] in quarters
RiskStep(acc, risk) ==
  LET weight == RISK_WEIGHTS(risk.category)
      multiplier == SEVERITY_MULTIPLIERS(risk.severity)
      score == IF multiplier = NaN THEN NaN ELSE weight * multiplier
      bucket == BucketOf(risk.category)
  IN  [totalScore |-> Plus(acc.totalScore, score),
       breakdown |-> IF bucket = None THEN acc.breakdown
                     ELSE [acc.breakdown EXCEPT ![bucket] = Plus(@, score)]]

\* term.importance === 'required' ? 10 : term.importance === 'recommended' ? 5 : 2
TermPenalty(term) ==
  IF term.importance = "required" THEN 10
  ELSE IF term.importance = "recommended" THEN 5 ELSE 2

\* one iteration of `for (const term of missingTerms)`
TermStep(acc, term) ==
  LET penalty == 4 * TermPenalty(term)
  IN  [totalScore |-> Plus(acc.totalScore, penalty),
       breakdown |-> [acc.breakdown EXCEPT !["missingClauses"] = Plus(@, penalty)]]

\* the loop started one element late
RECURSIVE RiskLoop_SkipFirst(_, _, _)
RiskLoop_SkipFirst(rs, i, acc) ==
  IF i > Len(rs) THEN acc
  ELSE RiskLoop_SkipFirst(rs, i + 1, IF i = 1 THEN acc ELSE RiskStep(acc, rs[i]))

RECURSIVE RiskLoop(_, _, _)
RiskLoop(rs, i, acc) ==
  IF i > Len(rs) THEN acc ELSE RiskLoop(rs, i + 1, RiskStep(acc, rs[i]))

RECURSIVE TermLoop(_, _, _)
TermLoop(ts, i, acc) ==
  IF i > Len(ts) THEN acc ELSE TermLoop(ts, i + 1, TermStep(acc, ts[i]))

\* the bands B and C exchanged
calculateGrade_Swapped(score) ==
  IF score = NaN THEN "F"
  ELSE IF score <= 20 THEN "A"
  ELSE IF score <= 40 THEN "C"
  ELSE IF score <= 60 THEN "B"
  ELSE IF score <= 80 THEN "D"
  ELSE "F"

\* the bands compared with < in place of <=
calculateGrade_Strict(score) ==
  IF score < 20 THEN "A"
  ELSE IF score < 40 THEN "B"
  ELSE IF score < 60 THEN "C"
  ELSE IF score < 80 THEN "D"
  ELSE "F"

calculateGrade(score) ==
  IF score = NaN THEN "F"
  ELSE IF score <= 20 THEN "A"
  ELSE IF score <= 40 THEN "B"
  ELSE IF score <= 60 THEN "C"
  ELSE IF score <= 80 THEN "D"
  ELSE "F"

calculateRiskScore(rs, ts, bs) ==
  LET zero == [totalScore |-> 0, breakdown |-> [b \in Buckets |-> 0]]
      afterRisks == RiskLoop(rs, 1, zero)
      afterTerms == TermLoop(ts, 1, afterRisks)
      totalScore == Plus(afterTerms.totalScore, 4 * (Len(bs) * 5))
      breakdown == afterTerms.breakdown
      normalizedScore == MathMin(100, MathRound(totalScore))
  IN  [overall |-> normalizedScore,
       breakdown |-> [b \in Buckets |-> MathMin(25, MathRound(breakdown[b]))],
       grade |-> calculateGrade(normalizedScore)]

\* ---------------------------------------------------- action prioritizer
\* priorityOrder = { urgent: 0, high: 1, medium: 2, low: 3 }
priorityOrder(priority) ==
  CASE priority = "urgent" -> 0
    [] priority = "high" -> 1
    [] priority = "medium" -> 2
    [] priority = "low" -> 3

\* Array.prototype.filter: the indices i >= from with keep[i], in order
RECURSIVE FilterIdx(_, _)
FilterIdx(keep, from) ==
  IF from > Len(keep) THEN <<>>
  ELSE (IF keep[from] THEN <<from>> ELSE <<>>) \o FilterIdx(keep, from + 1)

\* A RequiredAction: priority, status, and `from`, which stands for the action and
\* reason texts copied from the finding (list and index of the finding it was made of).
\* every risk action given priority high
RiskAction_AlwaysHigh(rs, i) ==
  [priority |-> "high", status |-> "pending", from |-> <<"risk", i>>]

RiskAction(rs, i) ==
  [priority |-> IF rs[i].severity = "critical" THEN "urgent" ELSE "high",
   status |-> "pending", from |-> <<"risk", i>>]

BlockerAction(bs, i) ==
  [priority |-> IF bs[i].type = "missing_signature" THEN "urgent" ELSE "high",
   status |-> "pending", from |-> <<"blocker", i>>]

TermAction(ts, i) ==
  [priority |-> "medium", status |-> "pending", from |-> <<"term", i>>]

\* an insertion that puts an element before those comparing equal: not stable
RECURSIVE InsertSorted_Unstable(_, _)
InsertSorted_Unstable(sorted, a) ==
  IF sorted = <<>> THEN <<a>>
  ELSE LET last == sorted[Len(sorted)]
       IN  IF priorityOrder(last.priority) - priorityOrder(a.priority) < 0
           THEN Append(sorted, a)
           ELSE Append(InsertSorted_Unstable(SubSeq(sorted, 1, Len(sorted) - 1), a), last)

\* Array.prototype.sort with a comparator is stable: insertion from the left,
\* each element placed after every element that does not compare greater
RECURSIVE InsertSorted(_, _)
InsertSorted(sorted, a) ==
  IF sorted = <<>> THEN <<a>>
  ELSE LET last == sorted[Len(sorted)]
       IN  IF priorityOrder(last.priority) - priorityOrder(a.priority) <= 0
           THEN Append(sorted, a)
           ELSE Append(InsertSorted(SubSeq(sorted, 1, Len(sorted) - 1), a), last)

RECURSIVE SortByPriority(_, _, _)
SortByPriority(as, i, sorted) ==
  IF i > Len(as) THEN sorted
  ELSE SortByPriority(as, i + 1, InsertSorted(sorted, as[i]))

\* the filter keeping the critical risks only
IsCriticalOrHigh_OnlyCritical(r) == r.severity = "critical"

IsCriticalOrHigh(r) == r.severity = "critical" \/ r.severity = "high"

IsRequired(t) == t.importance = "required"

generateRequiredActions(rs, ts, bs) ==
  LET ri == FilterIdx([i \in 1..Len(rs) |-> IsCriticalOrHigh(rs[i])], 1)
      ti == FilterIdx([i \in 1..Len(ts) |-> IsRequired(ts[i])], 1)
      fromRisks == [k \in 1..Len(ri) |-> RiskAction(rs, ri[k])]
      fromBlockers == [k \in 1..Len(bs) |-> BlockerAction(bs, k)]
      fromTerms == [k \in 1..Len(ti) |-> TermAction(ts, ti[k])]
      pushed == fromRisks \o fromBlockers \o fromTerms
  IN  SortByPriority(pushed, 1, <<>>)

\* ------------------------------------------------------ document text
(***************************************************************************)
(* A document text is a sequence of tokens, the phrases of the vocabulary  *)
(* below, standing for the string of the tokens joined by single spaces.   *)
(* What the source computes on the string (includes, RegExp test and       *)
(* matchAll, split) is given token by token in the tables that follow; on  *)
(* every text of this vocabulary the string functions of the source give   *)
(* the union (for matchAll: the concatenation) of what they give on the    *)
(* tokens, since no keyword or pattern of the source matches across two    *)
(* tokens of the vocabulary.  The random ids of risks, blockers and        *)
(* actions (randomUUID) are left out.                                      *)
(***************************************************************************)
Tokens ==
  {"Termination", "unlimited liability", "waive all rights", "01/15/2024",
   "$50,000.00", "term of 12 months", "signed by", "Confidential Information",
   "proprietary", "December 31, 2024"}

Filenames == {"MSA-Acme.pdf", "scan001.pdf", "NDA_contract.PDF"}

\* the phrases the rule-based functions are called on: clause, checklist and type
\* keywords, signature markers, unfavorable terms, and a phrase with none of them
RuleTokens ==
  {"Termination", "unlimited liability", "waive all rights", "01/15/2024",
   "term of 12 months", "signed by", "Confidential Information", "proprietary",
   "Signature", "automatic renewal", "non-compete", "governing law", "indemnify",
   "pricing quote", "terms and conditions of this agreement",
   "payment on the effective date", "receiving party", "scope and timeline",
   "invoice amount due", "statement of work deliverables",
   "master agreement and master service agreement"}

\* the filenames detectDocumentType is called on, the empty one included
RuleFilenames ==
  Filenames \cup {"", "Proposal-Agreement.docx", "invoice_sow.pdf",
                  "Master Service Agreement.pdf", "statement of work.pdf"}

DocumentType ==
  {"contract", "nda", "proposal", "agreement", "invoice", "sow", "msa", "unknown"}

\* String.prototype.toLowerCase of a token or a filename
toLowerCase(str) ==
  CASE str = "Termination" -> "termination"
    [] str = "Confidential Information" -> "confidential information"
    [] str = "December 31, 2024" -> "december 31, 2024"
    [] str = "MSA-Acme.pdf" -> "msa-acme.pdf"
    [] str = "NDA_contract.PDF" -> "nda_contract.pdf"
    [] str = "Signature" -> "signature"
    [] str = "Proposal-Agreement.docx" -> "proposal-agreement.docx"
    [] str = "Master Service Agreement.pdf" -> "master service agreement.pdf"
    [] OTHER -> str

\* the keywords of the source that occur in a lower-cased token (String.prototype.includes)
KeywordsIn(low) ==
  CASE low = "confidential information" -> {"confidential", "confidential information"}
    [] low = "governing law" -> {"governing law"}
    [] low = "indemnify" -> {"indemnify"}
    [] low = "invoice amount due" -> {"amount due", "invoice"}
    [] low = "master agreement and master service agreement" ->
         {"agreement", "master agreement", "master service agreement"}
    [] low = "payment on the effective date" -> {"effective date", "payment"}
    [] low = "pricing quote" -> {"pricing", "quote"}
    [] low = "receiving party" -> {"receiving party"}
    [] low = "scope and timeline" -> {"scope", "timeline"}
    [] low = "signature" -> {"signature"}
    [] low = "statement of work deliverables" -> {"deliverables", "statement of work"}
    [] low = "terms and conditions of this agreement" ->
         {"agreement", "conditions", "term", "terms", "terms and conditions"}
    [] low = "proprietary" -> {"proprietary"}
    [] low = "signed by" -> {"signed", "signed by"}
    [] low = "term of 12 months" -> {"term"}
    [] low = "termination" -> {"term", "termination"}
    [] low = "unlimited liability" -> {"liability"}
    [] OTHER -> {}

\* the filename markers that occur in a lower-cased filename
MarkersIn(low) ==
  CASE low = "msa-acme.pdf" -> {"msa"}
    [] low = "nda_contract.pdf" -> {"contract", "nda"}
    [] low = "proposal-agreement.docx" -> {"agreement", "proposal"}
    [] low = "invoice_sow.pdf" -> {"invoice", "sow"}
    [] low = "master service agreement.pdf" -> {"agreement", "master service"}
    [] low = "statement of work.pdf" -> {"statement of work"}
    [] OTHER -> {}

\* the unfavorable patterns, by title, that match a token (RegExp.prototype.test, flag i)
PatternsIn(tok) ==
  CASE tok = "unlimited liability" -> {"Unlimited Liability"}
    [] tok = "waive all rights" -> {"Rights Waiver"}
    [] tok = "automatic renewal" -> {"Auto-Renewal"}
    [] tok = "non-compete" -> {"Non-Compete Clause"}
    [] OTHER -> {}

\* the matches of one pattern family in a token (matchAll): match[1] of the three
\* date patterns, match[0] of the amount pattern and of the two term patterns
MatchesIn(family, tok) ==
  CASE family = "date1" /\ tok = "01/15/2024" -> <<"01/15/2024">>
    [] family = "date3" /\ tok = "December 31, 2024" -> <<"December">>
    [] family = "amount" /\ tok = "$50,000.00" -> <<"$50,000.00">>
    [] family = "term1" /\ tok = "term of 12 months" -> <<"term of 12 months">>
    [] OTHER -> <<>>

\* number of pieces of a token under split(/\s+/)
WordsIn(tok) ==
  CASE tok \in {"unlimited liability", "signed by", "Confidential Information",
                "automatic renewal", "governing law", "pricing quote", "receiving party"} -> 2
    [] tok \in {"waive all rights", "December 31, 2024", "scope and timeline",
                "invoice amount due"} -> 3
    [] tok \in {"term of 12 months", "statement of work deliverables"} -> 4
    [] tok = "payment on the effective date" -> 5
    [] tok \in {"terms and conditions of this agreement",
                "master agreement and master service agreement"} -> 6
    [] OTHER -> 1

\* text.toLowerCase()
LowerText(txt) == [i \in 1..Len(txt) |-> toLowerCase(txt[i])]

\* lowerText.includes(kw)
Includes(lowerText, kw) == \E i \in 1..Len(lowerText) : kw \in KeywordsIn(lowerText[i])

\* keywords.some(kw => lowerText.includes(kw))
SomeIncluded(lowerText, keywords) == \E kw \in keywords : Includes(lowerText, kw)

RECURSIVE Flatten(_)
Flatten(ss) == IF ss = <<>> THEN <<>> ELSE Head(ss) \o Flatten(Tail(ss))

\* ----------------------------------------------------- classification
\* the filename checks with contract tried before nda
filenameChecks_ContractFirst ==
  <<[type |-> "contract", markers |-> {"contract"}],
    [type |-> "nda", markers |-> {"nda", "non-disclosure"}],
    [type |-> "proposal", markers |-> {"proposal"}],
    [type |-> "agreement", markers |-> {"agreement"}],
    [type |-> "invoice", markers |-> {"invoice"}],
    [type |-> "sow", markers |-> {"sow", "statement of work"}],
    [type |-> "msa", markers |-> {"msa", "master service"}]>>

\* `if (lowerFilename.includes(..)) return ..` in source order
filenameChecks ==
  <<[type |-> "nda", markers |-> {"nda", "non-disclosure"}],
    [type |-> "proposal", markers |-> {"proposal"}],
    [type |-> "contract", markers |-> {"contract"}],
    [type |-> "agreement", markers |-> {"agreement"}],
    [type |-> "invoice", markers |-> {"invoice"}],
    [type |-> "sow", markers |-> {"sow", "statement of work"}],
    [type |-> "msa", markers |-> {"msa", "master service"}]>>

\* the content patterns with msa tried first
typePatterns_MsaFirst ==
  <<[type |-> "msa", keywords |-> {"master service agreement", "master agreement"}],
    [type |-> "nda", keywords |-> {"non-disclosure", "confidential information", "proprietary"}],
    [type |-> "proposal", keywords |-> {"proposal", "proposed solution", "pricing", "quote"}],
    [type |-> "contract", keywords |-> {"agreement", "terms and conditions", "hereby agree"}],
    [type |-> "invoice", keywords |-> {"invoice", "bill to", "payment due", "amount due"}],
    [type |-> "sow", keywords |-> {"statement of work", "deliverables", "scope of work"}]>>

\* const patterns, in source order
typePatterns ==
  <<[type |-> "nda", keywords |-> {"non-disclosure", "confidential information", "proprietary"}],
    [type |-> "proposal", keywords |-> {"proposal", "proposed solution", "pricing", "quote"}],
    [type |-> "contract", keywords |-> {"agreement", "terms and conditions", "hereby agree"}],
    [type |-> "invoice", keywords |-> {"invoice", "bill to", "payment due", "amount due"}],
    [type |-> "sow", keywords |-> {"statement of work", "deliverables", "scope of work"}],
    [type |-> "msa", keywords |-> {"master service agreement", "master agreement"}]>>

\* the type of the first entry of checks, from index i on, that satisfies Hit
RECURSIVE FirstType(_, _, _)
FirstType(hits, types, i) ==
  IF i > Len(hits) THEN "unknown"
  ELSE IF hits[i] THEN types[i] ELSE FirstType(hits, types, i + 1)

detectDocumentType(txt, fname) ==
  LET lowerText == LowerText(txt)
      lowerFilename == toLowerCase(fname)
      byName == [i \in 1..Len(filenameChecks) |->
                   filenameChecks[i].markers \cap MarkersIn(lowerFilename) # {}]
      matchCount(i) == Cardinality({kw \in typePatterns[i].keywords : Includes(lowerText, kw)})
      byContent == [i \in 1..Len(typePatterns) |-> matchCount(i) >= 2]
  IN  IF \E i \in 1..Len(filenameChecks) : byName[i]
      THEN FirstType(byName, [i \in 1..Len(filenameChecks) |-> filenameChecks[i].type], 1)
      ELSE FirstType(byContent, [i \in 1..Len(typePatterns) |-> typePatterns[i].type], 1)

\* ------------------------------------------- pattern and rule extractors
\* the pattern families of extractEntitiesWithPatterns in the order they are applied;
\* confidence in tenths
entityFamilies ==
  <<[family |-> "date1", type |-> "date", confidence |-> 8],
    [family |-> "date2", type |-> "date", confidence |-> 8],
    [family |-> "date3", type |-> "date", confidence |-> 8],
    [family |-> "amount", type |-> "amount", confidence |-> 9],
    [family |-> "term1", type |-> "term_duration", confidence |-> 7],
    [family |-> "term2", type |-> "term_duration", confidence |-> 7]>>

extractEntitiesWithPatterns(txt) ==
  LET OfMatch(f, m) == [type |-> f.type, value |-> m, confidence |-> f.confidence]
      InToken(f, tok) == LET ms == MatchesIn(f.family, tok)
                         IN  [k \in 1..Len(ms) |-> OfMatch(f, ms[k])]
      OfFamily(f) == Flatten([i \in 1..Len(txt) |-> InToken(f, txt[i])])
  IN  Flatten([j \in 1..Len(entityFamilies) |-> OfFamily(entityFamilies[j])])

standardClauses ==
  <<[name |-> "termination", keywords |-> {"termination", "terminate", "cancellation"}],
    [name |-> "liability", keywords |-> {"liability", "limitation of liability", "damages"}],
    [name |-> "indemnification", keywords |-> {"indemnify", "indemnification", "hold harmless"}],
    [name |-> "confidentiality", keywords |-> {"confidential", "proprietary", "non-disclosure"}],
    [name |-> "governing law", keywords |-> {"governing law", "jurisdiction", "venue"}]>>

unfavorablePatterns ==
  <<[title |-> "Unlimited Liability", severity |-> "high"],
    [title |-> "Rights Waiver", severity |-> "medium"],
    [title |-> "Auto-Renewal", severity |-> "low"],
    [title |-> "Non-Compete Clause", severity |-> "medium"]>>

\* a test that looks at the beginning of the text only
PatternTest_AtStart(title, txt) == txt # <<>> /\ title \in PatternsIn(txt[1])

\* pattern.test(text)
PatternTest(title, txt) == \E i \in 1..Len(txt) : title \in PatternsIn(txt[i])

\* an early return of no risks on an empty text
identifyRisksWithRules_EmptyGuard(txt, docType) ==
  IF txt = <<>> THEN <<>>
  ELSE Flatten([i \in 1..Len(standardClauses) |->
                  IF SomeIncluded(LowerText(txt), standardClauses[i].keywords) THEN <<>>
                  ELSE <<[category |-> "missing_clause", severity |-> "medium",
                          title |-> <<"Missing clause", standardClauses[i].name>>]>>])
       \o Flatten([i \in 1..Len(unfavorablePatterns) |->
                     IF PatternTest(unfavorablePatterns[i].title, txt)
                     THEN <<[category |-> "unfavorable_terms",
                             severity |-> unfavorablePatterns[i].severity,
                             title |-> <<unfavorablePatterns[i].title>>]>>
                     ELSE <<>>])

identifyRisksWithRules(txt, docType) ==
  LET lowerText == LowerText(txt)
      missing == [i \in 1..Len(standardClauses) |->
                    IF SomeIncluded(lowerText, standardClauses[i].keywords) THEN <<>>
                    ELSE <<[category |-> "missing_clause", severity |-> "medium",
                            title |-> <<"Missing clause", standardClauses[i].name>>]>>]
      unfavorable == [i \in 1..Len(unfavorablePatterns) |->
                        IF PatternTest(unfavorablePatterns[i].title, txt)
                        THEN <<[category |-> "unfavorable_terms",
                                severity |-> unfavorablePatterns[i].severity,
                                title |-> <<unfavorablePatterns[i].title>>]>>
                        ELSE <<>>]
  IN  Flatten(missing) \o Flatten(unfavorable)

contractTerms ==
  <<[term |-> "Effective Date", keywords |-> {"effective date", "commencement date", "start date"}],
    [term |-> "Term Duration", keywords |-> {"term", "duration", "period"}],
    [term |-> "Payment Terms", keywords |-> {"payment", "compensation", "fee", "price"}],
    [term |-> "Termination Clause", keywords |-> {"termination", "terminate", "cancel"}],
    [term |-> "Signatures", keywords |-> {"signature", "signed", "executed"}]>>

ndaTerms ==
  <<[term |-> "Definition of Confidential Information",
     keywords |-> {"confidential information", "proprietary information"}],
    [term |-> "Obligations of Receiving Party", keywords |-> {"receiving party", "recipient"}],
    [term |-> "Term of Confidentiality", keywords |-> {"term", "duration", "period"}],
    [term |-> "Permitted Disclosures", keywords |-> {"permitted disclosure", "exceptions"}]>>

proposalTerms ==
  <<[term |-> "Scope of Work", keywords |-> {"scope", "deliverables", "services"}],
    [term |-> "Timeline", keywords |-> {"timeline", "schedule", "milestones"}],
    [term |-> "Pricing", keywords |-> {"price", "cost", "fee", "investment"}],
    [term |-> "Terms and Conditions", keywords |-> {"terms", "conditions"}]>>

\* the lookup without the default to the contract checklist
requiredTermsByType_NoDefault(docType) ==
  CASE docType = "contract" -> contractTerms
    [] docType = "nda" -> ndaTerms
    [] docType = "proposal" -> proposalTerms
    [] OTHER -> <<>>

\* requiredTermsByType[documentType] || requiredTermsByType.contract
requiredTermsByType(docType) ==
  CASE docType = "contract" -> contractTerms
    [] docType = "nda" -> ndaTerms
    [] docType = "proposal" -> proposalTerms
    [] OTHER -> contractTerms

identifyMissingTerms(txt, docType) ==
  LET lowerText == LowerText(txt)
      requiredTerms == requiredTermsByType(docType)
  IN  Flatten([i \in 1..Len(requiredTerms) |->
                 IF SomeIncluded(lowerText, requiredTerms[i].keywords) THEN <<>>
                 ELSE <<[term |-> requiredTerms[i].term, importance |-> "required"]>>])

\* the signature check looking for 'signature' only
identifyBlockers_OneMarker(txt, rs, ts) ==
  LET lowerText == LowerText(txt)
      signature == IF ~Includes(lowerText, "signature")
                   THEN <<[type |-> "missing_signature", title |-> <<"Signatures Required">>]>>
                   ELSE <<>>
      criticalRisks == FilterIdx([i \in 1..Len(rs) |-> rs[i].severity = "critical"], 1)
      requiredMissing == FilterIdx([i \in 1..Len(ts) |-> ts[i].importance = "required"], 1)
  IN  signature
      \o [k \in 1..Len(criticalRisks) |->
            [type |-> "legal_review", title |-> <<"Critical Risk", rs[criticalRisks[k]].title>>]]
      \o [k \in 1..Len(requiredMissing) |->
            [type |-> "negotiation_required", title |-> <<"Missing", ts[requiredMissing[k]].term>>]]

identifyBlockers(txt, rs, ts) ==
  LET lowerText == LowerText(txt)
      signature == IF ~Includes(lowerText, "signature") /\ ~Includes(lowerText, "signed by")
                   THEN <<[type |-> "missing_signature", title |-> <<"Signatures Required">>]>>
                   ELSE <<>>
      criticalRisks == FilterIdx([i \in 1..Len(rs) |-> rs[i].severity = "critical"], 1)
      requiredMissing == FilterIdx([i \in 1..Len(ts) |-> ts[i].importance = "required"], 1)
  IN  signature
      \o [k \in 1..Len(criticalRisks) |->
            [type |-> "legal_review", title |-> <<"Critical Risk", rs[criticalRisks[k]].title>>]]
      \o [k \in 1..Len(requiredMissing) |->
            [type |-> "negotiation_required", title |-> <<"Missing", ts[requiredMissing[k]].term>>]]

\* text.split(/\s+/).length: the empty string splits into one empty piece
RECURSIVE SumWords(_)
SumWords(txt) == IF txt = <<>> THEN 0 ELSE WordsIn(Head(txt)) + SumWords(Tail(txt))

\* the basic summary names the document type, the word count and the first paragraph;
\* the texts of the model are one paragraph shorter than 200 characters
generateBasicSummary(txt, docType) ==
  [documentType |-> docType,
   wordCount |-> IF txt = <<>> THEN 1 ELSE SumWords(txt),
   firstParagraph |-> txt]

\* --------------------------------------------------- JavaScript values
JUndefined == [t |-> "undefined"]

JNull == [t |-> "null"]

\* a string written out as a literal, as opposed to one built from a template
Lit(str) == [lit |-> str]

JString(str) == [t |-> "string", v |-> str]

JArray(items) == [t |-> "array", items |-> items]

\* an object, fields a function from its keys to their values
JObject(fields) == [t |-> "object", fields |-> fields]

\* how an evaluation completes: with a value, or by throwing
Normal(v) == [type |-> "normal", value |-> v]

Throw == [type |-> "throw"]

\* ToBoolean, as `if (content)` and `a || b` apply it
Truthy(v) ==
  CASE v.t \in {"undefined", "null"} -> FALSE
    [] v.t = "number" -> v.v # 0
    [] v.t = "string" -> v.v # Lit("")
    [] OTHER -> TRUE

\* v[key]: a TypeError on null and undefined, undefined for a key that is not there
GetProp(v, key) ==
  IF v.t \in {"undefined", "null"} THEN Throw
  ELSE IF v.t = "object" /\ key \in DOMAIN v.fields THEN Normal(v.fields[key])
  ELSE Normal(JUndefined)

\* findings as the external analyzer may report them
AnalyzerEntity == [type |-> "party_name", value |-> "Acme Corp", confidence |-> 9]

AnalyzerRisk1 ==
  [category |-> "liability_exposure", severity |-> "critical", title |-> <<"Uncapped indemnity">>]

AnalyzerRisk2 ==
  [category |-> "payment_risk", severity |-> "low", title |-> <<"Net 90 payment">>]

\* risks whose category or severity is none of the declared ones
AnalyzerRisk3 ==
  [category |-> "operational_risk", severity |-> "high", title |-> <<"Single supplier">>]

AnalyzerRisk4 ==
  [category |-> "payment_risk", severity |-> "severe", title |-> <<"Penalty interest">>]

\* the message contents the external analyzer may answer with
Contents ==
  {"", "not json", "null", "5", "{}",
   "{\"entities\":[]}", "{\"entities\":[E]}", "{\"entities\":\"none\"}", "[E]",
   "{\"risks\":[]}", "{\"risks\":[R1,R2]}", "{\"risks\":\"none\"}", "{\"risks\":{}}",
   "{\"risks\":[R3]}", "{\"risks\":[R4]}",
   "The parties agree on a 12 month term."}

\* JSON.parse: the value of a JSON text, a SyntaxError otherwise
JSONparse(content) ==
  CASE content = "null" -> Normal(JNull)
    [] content = "5" -> Normal([t |-> "number", v |-> 5])
    [] content = "{}" -> Normal(JObject(<<>>))
    [] content = "{\"entities\":[]}" -> Normal(JObject([k \in {"entities"} |-> JArray(<<>>)]))
    [] content = "{\"entities\":[E]}" ->
         Normal(JObject([k \in {"entities"} |-> JArray(<<AnalyzerEntity>>)]))
    [] content = "{\"entities\":\"none\"}" ->
         Normal(JObject([k \in {"entities"} |-> JString(Lit("none"))]))
    [] content = "[E]" -> Normal(JArray(<<AnalyzerEntity>>))
    [] content = "{\"risks\":[]}" -> Normal(JObject([k \in {"risks"} |-> JArray(<<>>)]))
    [] content = "{\"risks\":[R1,R2]}" ->
         Normal(JObject([k \in {"risks"} |-> JArray(<<AnalyzerRisk1, AnalyzerRisk2>>)]))
    [] content = "{\"risks\":[R3]}" ->
         Normal(JObject([k \in {"risks"} |-> JArray(<<AnalyzerRisk3>>)]))
    [] content = "{\"risks\":[R4]}" ->
         Normal(JObject([k \in {"risks"} |-> JArray(<<AnalyzerRisk4>>)]))
    [] content = "{\"risks\":\"none\"}" -> Normal(JObject([k \in {"risks"} |-> JString(Lit("none"))]))
    [] content = "{\"risks\":{}}" -> Normal(JObject([k \in {"risks"} |-> JObject(<<>>)]))
    [] OTHER -> Throw

\* how openai.chat.completions.create may settle: the promise rejects, or resolves
\* with a body whose choices are missing, empty, or one message with its content
Outcomes ==
  {[kind |-> "rejects"],
   [kind |-> "resolves", choices |-> JUndefined],
   [kind |-> "resolves", choices |-> JArray(<<>>)],
   [kind |-> "resolves", choices |-> JArray(<<[message |-> [content |-> JNull]]>>)]}
  \cup {[kind |-> "resolves", choices |-> JArray(<<[message |-> [content |-> JString(Lit(c))]]>>)] :
          c \in Contents}

\* the outcomes drawn while analyzeDocument runs
PipelineOutcomes ==
  {[kind |-> "rejects"],
   [kind |-> "resolves", choices |-> JArray(<<>>)]}
  \cup {[kind |-> "resolves", choices |-> JArray(<<[message |-> [content |-> JString(Lit(c))]]>>)] :
          c \in {"{}", "{\"risks\":[R1,R2]}", "{\"risks\":[R3]}", "{\"risks\":[R4]}"}}

\* the promise of the external call is not settled
Pending == [kind |-> "pending"]

\* await create(..); response.choices[0]?.message?.content
ContentOf(resp) ==
  IF resp.kind = "rejects" THEN Throw
  ELSE IF resp.choices.t # "array" THEN Throw
  ELSE IF resp.choices.items = <<>> THEN Normal(JUndefined)
  ELSE Normal(resp.choices.items[1].message.content)

\* -------------------------------------------------- AI-backed analyzer
\* the try block of extractEntities after the await: a return, a throw, or neither
Return(v) == [type |-> "return", value |-> v]

FallsThrough == [type |-> "none"]

TryExtractEntities(resp) ==
  LET content == ContentOf(resp)
  IN  IF content.type = "throw" THEN Throw
      ELSE IF ~Truthy(content.value) THEN FallsThrough
      ELSE LET parsed == JSONparse(content.value.v.lit)
           IN  IF parsed.type = "throw" THEN Throw
               ELSE LET ents == GetProp(parsed.value, "entities")
                    IN  IF ents.type = "throw" THEN Throw
                        ELSE Return(IF Truthy(ents.value) THEN ents.value ELSE parsed.value)

\* the try without its catch: the exception leaves the function
extractEntitiesResume_NoCatch(resp, txt) ==
  LET try == TryExtractEntities(resp)
  IN  IF try.type = "return" THEN try
      ELSE IF try.type = "throw" THEN Throw
      ELSE Return(JArray(extractEntitiesWithPatterns(txt)))

\* extractEntities from the await on: catch logs, then the pattern fallback
extractEntitiesResume(resp, txt) ==
  LET try == TryExtractEntities(resp)
  IN  IF try.type = "return" THEN try
      ELSE Return(JArray(extractEntitiesWithPatterns(txt)))

TryIdentifyRisks(resp) ==
  LET content == ContentOf(resp)
  IN  IF content.type = "throw" THEN Throw
      ELSE IF ~Truthy(content.value) THEN FallsThrough
      ELSE LET parsed == JSONparse(content.value.v.lit)
           IN  IF parsed.type = "throw" THEN Throw
               ELSE LET prop == GetProp(parsed.value, "risks")
                    IN  IF prop.type = "throw" THEN Throw
                        ELSE LET rs == IF Truthy(prop.value) THEN prop.value ELSE JArray(<<>>)
                             IN  IF rs.t = "array" THEN Return(JArray(rs.items)) ELSE Throw

\* identifyRisks from the await on
identifyRisksResume(resp, txt, docType) ==
  LET try == TryIdentifyRisks(resp)
  IN  IF try.type = "return" THEN try
      ELSE Return(JArray(identifyRisksWithRules(txt, docType)))

\* generateSummary from the await on: content || basic summary, basic summary in catch
generateSummaryResume(resp, txt, docType) ==
  LET content == ContentOf(resp)
  IN  IF content.type = "throw" THEN Return(JString(generateBasicSummary(txt, docType)))
      ELSE IF Truthy(content.value) THEN Return(content.value)
      ELSE Return(JString(generateBasicSummary(txt, docType)))

AnalyzerFunctions == {"extractEntities", "identifyRisks", "generateSummary"}

\* what each function returns without the analyzer
Fallback(fn, txt, docType) ==
  CASE fn = "extractEntities" -> JArray(extractEntitiesWithPatterns(txt))
    [] fn = "identifyRisks" -> JArray(identifyRisksWithRules(txt, docType))
    [] fn = "generateSummary" -> JString(generateBasicSummary(txt, docType))

\* the check of the key left out
Unconfigured_Unchecked == FALSE

\* `if (!config.openai.apiKey)`
Unconfigured == ~apiKey

\* an analyzer function up to its await: without a key it returns its fallback, with
\* one it takes the client (getOpenAIClient creates it once) and issues the request
Begin(fn, docType) ==
  IF Unconfigured
  THEN /\ call' = [fn |-> fn, pc |-> "returned"]
       /\ result' = Fallback(fn, text, docType)
       /\ UNCHANGED <<openaiClient, requests, response>>
  ELSE /\ openaiClient' = "client"
       /\ requests' = Append(requests, fn)
       /\ call' = [fn |-> fn, pc |-> "awaiting"]
       /\ response' = Pending
       /\ UNCHANGED result

\* the function ends with the completion c
Settle(c) ==
  /\ call' = [call EXCEPT !.pc = IF c.type = "throw" THEN "thrown" ELSE "returned"]
  /\ result' = IF c.type = "throw" THEN JUndefined ELSE c.value

\* ------------------------------------------------------------ the inputs
Fill(x, n) == [i \in 1..n |-> x]

\* nothing of the analyzer or of analyzeDocument is running
NoDocument ==
  /\ text = <<>>
  /\ filename = None
  /\ documentType = None

AnalyzerIdle ==
  /\ requests = <<>>
  /\ call = [fn |-> None, pc |-> "idle"]
  /\ response = Pending
  /\ result = JUndefined

PipelineIdle ==
  /\ pc = "idle"
  /\ entities = JUndefined
  /\ summary = JUndefined

ScoringIdle ==
  /\ risks = <<>>
  /\ missingTerms = <<>>
  /\ blockers = <<>>
  /\ returned = {}
  /\ riskScore = <<>>
  /\ actions = <<>>

\* the routes have stored nothing and answered nothing
NoReply == [route |-> None]

AppIdle ==
  /\ documentStore = <<>>
  /\ dealDocuments = <<>>
  /\ uploads = {}
  /\ issued = 0
  /\ now = 0
  /\ reply = NoReply
  /\ disk = {}
  /\ tokenStorage = <<>>
  /\ authCalls = {}
  /\ authReply = NoReply

\* a single invocation, the answers of the service left open
Alone ==
  /\ parked = [pc |-> None]
  /\ script = [fn \in {} |-> Pending]

\* the scoring engine called on its own
Init ==
  /\ \/ \E a \in 0..MaxItems : \E b \in 0..(MaxItems - a) : \E c \in 0..(MaxItems - a - b) :
          /\ risks \in [1..a -> DocumentRisk]
          /\ missingTerms \in [1..b -> MissingTerm]
          /\ blockers \in [1..c -> DealBlocker]
     \/ \E r \in DocumentRisk, t \in MissingTerm, b \in DealBlocker :
          \E n \in 0..MaxFill, m \in 0..MaxFill, k \in 0..MaxFill :
            /\ risks = Fill(r, n)
            /\ missingTerms = Fill(t, m)
            /\ blockers = Fill(b, k)
  /\ returned = {}
  /\ riskScore = <<>>
  /\ actions = <<>>
  /\ NoDocument
  /\ apiKey = FALSE
  /\ openaiClient = "null"
  /\ AnalyzerIdle
  /\ PipelineIdle
  /\ AppIdle
  /\ Alone

CalculateRiskScore ==
  /\ pc = "idle"
  /\ "calculateRiskScore" \notin returned
  /\ riskScore' = calculateRiskScore(risks, missingTerms, blockers)
  /\ returned' = returned \cup {"calculateRiskScore"}
  /\ UNCHANGED <<risks, missingTerms, blockers, actions>>
  /\ UNCHANGED <<docVars, analyzerVars, pipelineVars>>
  /\ UNCHANGED <<appVars, concVars>>

GenerateRequiredActions ==
  /\ pc = "idle"
  /\ "generateRequiredActions" \notin returned
  /\ actions' = generateRequiredActions(risks, missingTerms, blockers)
  /\ returned' = returned \cup {"generateRequiredActions"}
  /\ UNCHANGED <<risks, missingTerms, blockers, riskScore>>
  /\ UNCHANGED <<docVars, analyzerVars, pipelineVars>>
  /\ UNCHANGED <<appVars, concVars>>

Next == CalculateRiskScore \/ GenerateRequiredActions

Spec == Init /\ [][Next]_vars

\* ------------------------------- the scoring engine on undeclared values
\* The types are erased when the program runs: a caller, or the parsed response of the
\* analyzer, can hand calculateRiskScore a category that is none of the seven.
AnyRisk == [category : RiskCategory \cup {"operational_risk"}, severity : RiskSeverity]

InitUntyped ==
  /\ \E a \in 0..MaxItems : \E b \in 0..(MaxItems - a) : \E c \in 0..(MaxItems - a - b) :
       /\ risks \in [1..a -> AnyRisk]
       /\ missingTerms \in [1..b -> MissingTerm]
       /\ blockers \in [1..c -> DealBlocker]
  /\ returned = {}
  /\ riskScore = <<>>
  /\ actions = <<>>
  /\ NoDocument
  /\ apiKey = FALSE
  /\ openaiClient = "null"
  /\ AnalyzerIdle
  /\ PipelineIdle
  /\ AppIdle
  /\ Alone

SpecUntyped == InitUntyped /\ [][Next]_vars

\* ------------------------------------ the analyzer functions on their own
Texts == UNION {[1..n -> Tokens] : n \in 0..MaxTextLen}

\* a key may or may not be configured; with a key, the client may be left from an
\* earlier call
InitConfig ==
  /\ apiKey \in BOOLEAN
  /\ openaiClient \in (IF apiKey THEN {"null", "client"} ELSE {"null"})

InitAI ==
  /\ text \in Texts
  /\ filename = None
  /\ documentType \in {"contract", "nda", "unknown"}
  /\ InitConfig
  /\ AnalyzerIdle
  /\ PipelineIdle
  /\ ScoringIdle
  /\ AppIdle
  /\ Alone

\* a direct call of extractEntities(text)
ExtractEntities ==
  /\ pc = "idle"
  /\ call.pc = "idle"
  /\ Begin("extractEntities", documentType)
  /\ UNCHANGED <<apiKey, scoreVars, docVars, pipelineVars>>
  /\ UNCHANGED <<appVars, concVars>>

\* a direct call of identifyRisks(text, documentType)
IdentifyRisks ==
  /\ pc = "idle"
  /\ call.pc = "idle"
  /\ Begin("identifyRisks", documentType)
  /\ UNCHANGED <<apiKey, scoreVars, docVars, pipelineVars>>
  /\ UNCHANGED <<appVars, concVars>>

\* a direct call of generateSummary(text, documentType)
GenerateSummary ==
  /\ pc = "idle"
  /\ call.pc = "idle"
  /\ Begin("generateSummary", documentType)
  /\ UNCHANGED <<apiKey, scoreVars, docVars, pipelineVars>>
  /\ UNCHANGED <<appVars, concVars>>

\* the external service settles the pending request
AnalyzerResponds ==
  /\ call.pc = "awaiting"
  /\ response = Pending
  /\ \E o \in (IF pc = "idle" THEN Outcomes ELSE PipelineOutcomes) : response' = o
  /\ UNCHANGED <<apiKey, openaiClient, requests, call, result>>
  /\ UNCHANGED <<scoreVars, docVars, pipelineVars>>
  /\ UNCHANGED <<appVars, concVars>>

ResumeExtractEntities ==
  /\ call = [fn |-> "extractEntities", pc |-> "awaiting"]
  /\ response # Pending
  /\ Settle(extractEntitiesResume(response, text))
  /\ UNCHANGED <<apiKey, openaiClient, requests, response>>
  /\ UNCHANGED <<scoreVars, docVars, pipelineVars>>
  /\ UNCHANGED <<appVars, concVars>>

ResumeIdentifyRisks ==
  /\ call = [fn |-> "identifyRisks", pc |-> "awaiting"]
  /\ response # Pending
  /\ Settle(identifyRisksResume(response, text, documentType))
  /\ UNCHANGED <<apiKey, openaiClient, requests, response>>
  /\ UNCHANGED <<scoreVars, docVars, pipelineVars>>
  /\ UNCHANGED <<appVars, concVars>>

ResumeGenerateSummary ==
  /\ call = [fn |-> "generateSummary", pc |-> "awaiting"]
  /\ response # Pending
  /\ Settle(generateSummaryResume(response, text, documentType))
  /\ UNCHANGED <<apiKey, openaiClient, requests, response>>
  /\ UNCHANGED <<scoreVars, docVars, pipelineVars>>
  /\ UNCHANGED <<appVars, concVars>>

NextAI ==
  \/ ExtractEntities
  \/ IdentifyRisks
  \/ GenerateSummary
  \/ AnalyzerResponds
  \/ ResumeExtractEntities
  \/ ResumeIdentifyRisks
  \/ ResumeGenerateSummary

SpecAI == InitAI /\ [][NextAI]_vars

\* ------------------------------- the rule-based functions on their own
RuleTexts == UNION {[1..n -> RuleTokens] : n \in 0..MaxTextLen}

\* texts of the phrases that decide the signature check of identifyBlockers, and of
\* one that does not
SignatureTexts ==
  UNION {[1..n -> {"Signature", "signed by", "Termination"}] : n \in 0..MaxTextLen}

\* the risks and missing terms identifyBlockers is called with: every severity and
\* every importance, two different findings of each
FoundRisks ==
  {[category |-> "liability_exposure", severity |-> s, title |-> <<t>>] :
     s \in RiskSeverity, t \in {"Risk one", "Risk two"}}

FoundTerms ==
  {[term |-> t, importance |-> i] : i \in Importance, t \in {"Term one", "Term two"}}

\* the arguments of one direct call: of identifyBlockers(text, risks, missingTerms),
\* of identifyRisks / identifyMissingTerms(text, documentType), or of
\* detectDocumentType(text, filename); no key is configured
InitRules ==
  /\ \/ /\ text \in SignatureTexts
        /\ \E a \in 0..MaxItems : \E b \in 0..(MaxItems - a) :
             /\ risks \in [1..a -> FoundRisks]
             /\ missingTerms \in [1..b -> FoundTerms]
        /\ filename = None
        /\ documentType = None
     \/ /\ text \in RuleTexts
        /\ risks = <<>>
        /\ missingTerms = <<>>
        /\ filename = None
        /\ documentType \in DocumentType
     \/ /\ text \in RuleTexts
        /\ risks = <<>>
        /\ missingTerms = <<>>
        /\ filename \in RuleFilenames
        /\ documentType = None
  /\ blockers = <<>>
  /\ returned = {}
  /\ riskScore = <<>>
  /\ actions = <<>>
  /\ apiKey = FALSE
  /\ openaiClient = "null"
  /\ AnalyzerIdle
  /\ PipelineIdle
  /\ AppIdle
  /\ Alone

\* a direct call of detectDocumentType(text, filename)
DetectDocumentType ==
  /\ pc = "idle"
  /\ call.pc = "idle"
  /\ filename # None
  /\ call' = [fn |-> "detectDocumentType", pc |-> "returned"]
  /\ result' = JString(Lit(detectDocumentType(text, filename)))
  /\ UNCHANGED <<apiKey, openaiClient, requests, response>>
  /\ UNCHANGED <<scoreVars, docVars, pipelineVars>>
  /\ UNCHANGED <<appVars, concVars>>

\* a direct call of identifyMissingTerms(text, documentType)
IdentifyMissingTerms ==
  /\ pc = "idle"
  /\ call.pc = "idle"
  /\ documentType # None
  /\ call' = [fn |-> "identifyMissingTerms", pc |-> "returned"]
  /\ result' = JArray(identifyMissingTerms(text, documentType))
  /\ UNCHANGED <<apiKey, openaiClient, requests, response>>
  /\ UNCHANGED <<scoreVars, docVars, pipelineVars>>
  /\ UNCHANGED <<appVars, concVars>>

\* a direct call of identifyBlockers(text, risks, missingTerms)
IdentifyBlockers ==
  /\ pc = "idle"
  /\ call.pc = "idle"
  /\ call' = [fn |-> "identifyBlockers", pc |-> "returned"]
  /\ result' = JArray(identifyBlockers(text, risks, missingTerms))
  /\ UNCHANGED <<apiKey, openaiClient, requests, response>>
  /\ UNCHANGED <<scoreVars, docVars, pipelineVars>>
  /\ UNCHANGED <<appVars, concVars>>

NextRules ==
  \/ DetectDocumentType
  \/ IdentifyRisks
  \/ IdentifyMissingTerms
  \/ IdentifyBlockers

SpecRules == InitRules /\ [][NextRules]_vars

\* ------------------------------------------------------ analyzeDocument
\* ingestDocument has resolved with parsed.text = text
InitAnalyze ==
  /\ text \in Texts
  /\ filename \in Filenames
  /\ documentType = None
  /\ InitConfig
  /\ AnalyzerIdle
  /\ pc = "ingested"
  /\ entities = JUndefined
  /\ summary = JUndefined
  /\ ScoringIdle
  /\ AppIdle
  /\ Alone

\* the analyzer function awaited has settled
Settled(fn) == call.fn = fn /\ call.pc \in {"returned", "thrown"}

\* an exception of the awaited function rejects analyzeDocument
Rejected ==
  /\ pc' = "rejected"
  /\ UNCHANGED <<scoreVars, docVars, analyzerVars, entities, summary>>

\* detectDocumentType, then extractEntities up to its await
AnalyzeDocument ==
  /\ pc = "ingested"
  /\ documentType' = detectDocumentType(text, filename)
  /\ Begin("extractEntities", documentType')
  /\ pc' = "extractEntities"
  /\ UNCHANGED <<apiKey, scoreVars, text, filename, entities, summary>>
  /\ UNCHANGED <<appVars, concVars>>

\* const entities = await extractEntities(..); identifyRisks up to its await
AfterExtractEntities ==
  /\ pc = "extractEntities"
  /\ Settled("extractEntities")
  /\ IF call.pc = "thrown" THEN Rejected
     ELSE /\ entities' = result
          /\ Begin("identifyRisks", documentType)
          /\ pc' = "identifyRisks"
          /\ UNCHANGED <<apiKey, scoreVars, docVars, summary>>
  /\ UNCHANGED <<appVars, concVars>>

\* const risks = await identifyRisks(..)
AfterIdentifyRisks ==
  /\ pc = "identifyRisks"
  /\ Settled("identifyRisks")
  /\ IF call.pc = "thrown" THEN Rejected
     ELSE /\ risks' = result.items
          /\ pc' = "identifyMissingTerms"
          /\ UNCHANGED <<missingTerms, blockers, returned, riskScore, actions>>
          /\ UNCHANGED <<docVars, analyzerVars, entities, summary>>
  /\ UNCHANGED <<appVars, concVars>>

\* identifyBlockers reached without the result of identifyMissingTerms
AfterIdentifyMissingTerms_NotAwaited ==
  /\ pc = "identifyMissingTerms"
  /\ missingTerms' = <<>>
  /\ pc' = "identifyBlockers"
  /\ UNCHANGED <<risks, blockers, returned, riskScore, actions>>
  /\ UNCHANGED <<docVars, analyzerVars, entities, summary>>
  /\ UNCHANGED <<appVars, concVars>>

\* const missingTerms = await identifyMissingTerms(..)
AfterIdentifyMissingTerms ==
  /\ pc = "identifyMissingTerms"
  /\ missingTerms' = identifyMissingTerms(text, documentType)
  /\ pc' = "identifyBlockers"
  /\ UNCHANGED <<risks, blockers, returned, riskScore, actions>>
  /\ UNCHANGED <<docVars, analyzerVars, entities, summary>>
  /\ UNCHANGED <<appVars, concVars>>

\* identifyBlockers handed the risks only
AfterIdentifyBlockers_RisksOnly ==
  /\ pc = "identifyBlockers"
  /\ blockers' = identifyBlockers(text, risks, <<>>)
  /\ riskScore' = calculateRiskScore(risks, missingTerms, blockers')
  /\ Begin("generateSummary", documentType)
  /\ pc' = "generateSummary"
  /\ UNCHANGED <<apiKey, risks, missingTerms, returned, actions, docVars, entities, summary>>
  /\ UNCHANGED <<appVars, concVars>>

\* const blockers = await identifyBlockers(..); calculateRiskScore; generateSummary up
\* to its await
AfterIdentifyBlockers ==
  /\ pc = "identifyBlockers"
  /\ blockers' = identifyBlockers(text, risks, missingTerms)
  /\ riskScore' = calculateRiskScore(risks, missingTerms, blockers')
  /\ Begin("generateSummary", documentType)
  /\ pc' = "generateSummary"
  /\ UNCHANGED <<apiKey, risks, missingTerms, returned, actions, docVars, entities, summary>>
  /\ UNCHANGED <<appVars, concVars>>

\* const summary = await generateSummary(..); return the DocumentAnalysis
AfterGenerateSummary ==
  /\ pc = "generateSummary"
  /\ Settled("generateSummary")
  /\ IF call.pc = "thrown" THEN Rejected
     ELSE /\ summary' = result
          /\ pc' = "done"
          /\ UNCHANGED <<scoreVars, docVars, analyzerVars, entities>>
  /\ UNCHANGED <<appVars, concVars>>

\* the steps of the program itself: everything but the answer of the external service
ProgramStep ==
  \/ AnalyzeDocument
  \/ AfterExtractEntities
  \/ AfterIdentifyRisks
  \/ AfterIdentifyMissingTerms
  \/ AfterIdentifyBlockers
  \/ AfterGenerateSummary
  \/ ResumeExtractEntities
  \/ ResumeIdentifyRisks
  \/ ResumeGenerateSummary

NextAnalyze == ProgramStep \/ AnalyzerResponds

SpecAnalyze == InitAnalyze /\ [][NextAnalyze]_vars

\* the event loop runs every continuation that is ready; nothing obliges the external
\* service to answer
SpecAnalyzeFair == SpecAnalyze /\ WF_vars(ProgramStep)

\* -------------------------------- analyzeDocument as one computation
\* the value an analyzer function returns to analyzeDocument, the external call
\* settling with answer
AnalyzerCompletion(fn, answer, txt, docType) ==
  IF Unconfigured THEN Return(Fallback(fn, txt, docType))
  ELSE CASE fn = "extractEntities" -> extractEntitiesResume(answer, txt)
         [] fn = "identifyRisks" -> identifyRisksResume(answer, txt, docType)
         [] fn = "generateSummary" -> generateSummaryResume(answer, txt, docType)

\* analyzeDocument run from ingestion to its return, the external calls answered by
\* answers; documentId and the two timestamps are added by the caller's record
analyzeDocument(txt, fname, answers) ==
  LET docType == detectDocumentType(txt, fname)
      ents == AnalyzerCompletion("extractEntities", answers["extractEntities"], txt, docType)
      found == AnalyzerCompletion("identifyRisks", answers["identifyRisks"], txt, docType)
      summed == AnalyzerCompletion("generateSummary", answers["generateSummary"], txt, docType)
      rs == found.value.items
      ts == identifyMissingTerms(txt, docType)
      bs == identifyBlockers(txt, rs, ts)
  IN  IF ents.type = "throw" \/ found.type = "throw" \/ summed.type = "throw" THEN Throw
      ELSE Normal([filename |-> fname,
                   documentType |-> docType,
                   entities |-> ents.value,
                   risks |-> rs,
                   missingTerms |-> ts,
                   blockers |-> bs,
                   riskScore |-> calculateRiskScore(rs, ts, bs),
                   summary |-> summed.value,
                   rawText |-> txt])

\* the answers the external service gives to the three calls of one invocation
Scripts == {[fn \in AnalyzerFunctions |-> o] : o \in PipelineOutcomes}

\* ------------------------------------------------------ document routes
\* Read-only routes (GET) are left out.  documentIds are the numbers randomUUID is
\* taken to give out one after the other, so that no two uploads share an id.
DocumentIds == 1..MaxUploads

DealIds == {"deal-1", "deal-2"}

\* the answers of the service during the uploads: two reported risks
UploadScripts ==
  {[fn \in AnalyzerFunctions |->
      [kind |-> "resolves",
       choices |-> JArray(<<[message |-> [content |-> JString(Lit("{\"risks\":[R1,R2]}"))]]>>)]]}

InitStore ==
  /\ apiKey \in BOOLEAN
  /\ openaiClient = "null"
  /\ NoDocument
  /\ AnalyzerIdle
  /\ PipelineIdle
  /\ ScoringIdle
  /\ AppIdle
  /\ Alone

\* what the route handlers leave alone: the analyzer and the pipeline variables stand
\* for direct calls, the uploads carry their own documents
HandlerFrame ==
  UNCHANGED <<scoreVars, docVars, analyzerVars, pipelineVars, concVars, authVars>>

\* Map.prototype.set
MapSet(map, key, value) == [k \in DOMAIN map \cup {key} |-> IF k = key THEN value ELSE map[k]]

\* Map.prototype.delete
MapDelete(map, key) == [k \in DOMAIN map \ {key} |-> map[k]]

\* dealDocuments.get(dealId) || []
DocsOfDeal(dealId) == IF dealId \in DOMAIN dealDocuments THEN dealDocuments[dealId] ELSE <<>>

\* the splice left out
SpliceFirst_Kept(docs, documentId) == docs

\* docs.indexOf(documentId) and docs.splice(index, 1): the first occurrence removed
SpliceFirst(docs, documentId) ==
  IF \E i \in 1..Len(docs) : docs[i] = documentId
  THEN LET index == CHOOSE i \in 1..Len(docs) :
                      docs[i] = documentId /\ \A j \in 1..(i - 1) : docs[j] # documentId
       IN  SubSeq(docs, 1, index - 1) \o SubSeq(docs, index + 1, Len(docs))
  ELSE docs

\* req.file.path: the file multer.diskStorage wrote for a request.  The file of an
\* upload that reaches analyzeDocument is told apart by the number of the upload,
\* the files of refused requests by the refusal only.
TempFile(request, n) == [request |-> request, n |-> n]

\* cleanupFile(filePath): the file is unlinked when it exists
cleanupFile(files, filePath) == files \ {filePath}

\* POST /upload answered 400: no dealId, no file, or a file validateUpload refuses.
\* stored: the request carried a file, which upload.single wrote before the handler
UploadRefusedWith(code, stored) ==
  /\ code = "NO_FILE" => ~stored
  /\ code = "INVALID_FILE" => stored
  /\ LET path == TempFile(code, 0)
         written == IF stored THEN disk \cup {path} ELSE disk
     IN  disk' = IF code = "INVALID_FILE" THEN cleanupFile(written, path) ELSE written
  /\ reply' = [route |-> "upload", status |-> 400, code |-> code]
  /\ UNCHANGED <<documentStore, dealDocuments, uploads, issued, now>>
  /\ HandlerFrame

\* POST /upload up to `await analyzeDocument(..)`
UploadBegin ==
  /\ issued < MaxUploads
  /\ \E dealId \in DealIds, answers \in UploadScripts,
        file \in {[text |-> <<"unlimited liability">>, filename |-> "MSA-Acme.pdf"]} :
       uploads' = uploads \cup {[documentId |-> issued + 1, dealId |-> dealId,
                                 text |-> file.text, filename |-> file.filename,
                                 answers |-> answers]}
  /\ issued' = issued + 1
  /\ disk' = disk \cup {TempFile("upload", issued + 1)}
  /\ UNCHANGED <<documentStore, dealDocuments, now, reply>>
  /\ HandlerFrame

\* analyzeDocument has resolved: the analysis is stored, the document is listed
\* under its deal, the response is sent
UploadComplete ==
  /\ \E u \in uploads :
       LET returned_ == analyzeDocument(u.text, u.filename, u.answers)
           analysis == [documentId |-> u.documentId, uploadedAt |-> now,
                        analyzedAt |-> now] @@ returned_.value
       IN  /\ returned_.type # "throw"
           /\ documentStore' = MapSet(documentStore, u.documentId, analysis)
           /\ dealDocuments' =
                MapSet(dealDocuments, u.dealId, Append(DocsOfDeal(u.dealId), u.documentId))
           /\ uploads' = uploads \ {u}
           /\ disk' = cleanupFile(disk, TempFile("upload", u.documentId))
           /\ reply' = [route |-> "upload", status |-> 200]
  /\ UNCHANGED <<issued, now>>
  /\ HandlerFrame

\* analyzeDocument has rejected (ingestDocument could not read the file): 500
UploadFails ==
  /\ \E u \in uploads :
       /\ uploads' = uploads \ {u}
       /\ disk' = cleanupFile(disk, TempFile("upload", u.documentId))
       /\ reply' = [route |-> "upload", status |-> 500, code |-> "ANALYSIS_FAILED"]
  /\ UNCHANGED <<documentStore, dealDocuments, issued, now>>
  /\ HandlerFrame

\* DELETE /:documentId for one documentId
DeleteDocumentOf(documentId) ==
  /\ documentStore' = MapDelete(documentStore, documentId)
  /\ dealDocuments' =
       [dealId \in DOMAIN dealDocuments |-> SpliceFirst(dealDocuments[dealId], documentId)]
  /\ reply' = [route |-> "delete", status |-> 200,
               deleted |-> documentId \in DOMAIN documentStore]
  /\ UNCHANGED <<uploads, issued, now>>
  /\ UNCHANGED disk
  /\ HandlerFrame

\* the risks dropped from the stored analysis, its score kept
Touch_RisksDropped(documentId) ==
  [documentStore EXCEPT ![documentId].analyzedAt = now, ![documentId].risks = <<>>]

Touch_Reprocessed(documentId) ==
  [documentStore EXCEPT ![documentId].analyzedAt = now, ![documentId].uploadedAt = now]

\* existingAnalysis.analyzedAt = new Date().toISOString(); documentStore.set(..)
Touch(documentId) == [documentStore EXCEPT ![documentId].analyzedAt = now]

\* POST /:documentId/reanalyze for one documentId
ReanalyzeDocument(documentId) ==
  /\ IF documentId \notin DOMAIN documentStore
     THEN /\ reply' = [route |-> "reanalyze", status |-> 404]
          /\ UNCHANGED documentStore
     ELSE /\ documentStore' = Touch(documentId)
          /\ reply' = [route |-> "reanalyze", status |-> 200]
  /\ UNCHANGED <<dealDocuments, uploads, issued, now>>
  /\ UNCHANGED disk
  /\ HandlerFrame

\* POST /api/webhooks/action with one action and documentId in its body
WebhookActionOn(action, documentId) ==
  /\ IF action = "reanalyze" /\ documentId \in DOMAIN documentStore
     THEN documentStore' = Touch(documentId)
     ELSE UNCHANGED documentStore
  /\ reply' = [route |-> "webhooks/action", status |-> 200, action |-> action]
  /\ UNCHANGED <<dealDocuments, uploads, issued, now>>
  /\ UNCHANGED disk
  /\ HandlerFrame

\* time passes
Tick ==
  /\ now < MaxClock
  /\ now' = now + 1
  /\ UNCHANGED <<documentStore, dealDocuments, uploads, issued, reply>>
  /\ UNCHANGED disk
  /\ HandlerFrame

NextStore ==
  \/ \E code \in {"MISSING_DEAL_ID", "NO_FILE", "INVALID_FILE"}, stored \in BOOLEAN :
       UploadRefusedWith(code, stored)
  \/ UploadBegin
  \/ UploadComplete
  \/ UploadFails
  \/ \E documentId \in DocumentIds : DeleteDocumentOf(documentId)
  \/ \E documentId \in DocumentIds : ReanalyzeDocument(documentId)
  \/ \E action \in {"reanalyze", "mark_resolved"}, documentId \in DocumentIds :
       WebhookActionOn(action, documentId)
  \/ Tick

SpecStore == InitStore /\ [][NextStore]_vars

\* ------------------------------------------------- OAuth tokens
\* tokenStorage, the functions of the OAuth service that write it, the routes that
\* call them and requireAuth.  One unit of the clock is the five minutes of
\* getValidTokens; tokens are their expiresAt.
Portals == {"portal-1", "portal-2"}

\* tokenResponse.expiresIn, in units of the clock
ExpiresIn == {1, 2}

\* `tokens.expiresAt - Date.now() < 5 * 60 * 1000`
ExpiresSoon(tokens) == tokens.expiresAt - now < 1

InitAuth ==
  /\ apiKey = FALSE
  /\ openaiClient = "null"
  /\ NoDocument
  /\ AnalyzerIdle
  /\ PipelineIdle
  /\ ScoringIdle
  /\ AppIdle
  /\ Alone

\* what the OAuth service and requireAuth leave alone
AuthFrame ==
  UNCHANGED <<scoreVars, docVars, analyzerVars, pipelineVars, concVars,
              documentStore, dealDocuments, uploads, issued, now, reply, disk>>

\* storeTokens(portalId, tokens)
StoreTokensOf(portalId) ==
  /\ \E expiresIn \in ExpiresIn :
       tokenStorage' = MapSet(tokenStorage, portalId, [expiresAt |-> now + expiresIn])
  /\ UNCHANGED <<authCalls, authReply>>
  /\ AuthFrame

\* GET /oauth/callback without a code or with an error: 400
OAuthCallbackRefused ==
  /\ authReply' = [route |-> "oauth/callback", status |-> 400]
  /\ UNCHANGED <<tokenStorage, authCalls>>
  /\ AuthFrame

\* GET /oauth/callback with a code, up to the first await of exchangeCodeForTokens;
\* hubId is the portal the code belongs to, None when the token info has none
OAuthCallback ==
  /\ \E hubId \in Portals \cup {None} :
       authCalls' = authCalls \cup {[op |-> "exchange", portalId |-> hubId]}
  /\ UNCHANGED <<tokenStorage, authReply>>
  /\ AuthFrame

\* exchangeCodeForTokens after its awaits: the tokens are stored under their portal
ExchangeCompleteOf(hubId) ==
  /\ [op |-> "exchange", portalId |-> hubId] \in authCalls
  /\ authCalls' = authCalls \ {[op |-> "exchange", portalId |-> hubId]}
  /\ IF hubId # None
     THEN \E expiresIn \in ExpiresIn :
            tokenStorage' = MapSet(tokenStorage, hubId, [expiresAt |-> now + expiresIn])
     ELSE UNCHANGED tokenStorage
  /\ authReply' = [route |-> "oauth/callback", status |-> 200]
  /\ AuthFrame

\* the token API rejects the exchange: 500 TOKEN_EXCHANGE_FAILED
ExchangeFails ==
  /\ \E c \in authCalls :
       /\ c.op = "exchange"
       /\ authCalls' = authCalls \ {c}
  /\ authReply' = [route |-> "oauth/callback", status |-> 500]
  /\ UNCHANGED tokenStorage
  /\ AuthFrame

\* requireAuth for a request of portalId (None: the request names no portal), up to
\* its response, its call of next(), or the await inside refreshTokens
RequireAuthOf(portalId) ==
  /\ IF portalId = None \/ portalId \notin DOMAIN tokenStorage
     THEN /\ authReply' = [route |-> "requireAuth", status |-> 401]
          /\ UNCHANGED authCalls
     ELSE IF ExpiresSoon(tokenStorage[portalId])
     THEN /\ authCalls' = authCalls \cup {[op |-> "refresh", portalId |-> portalId]}
          /\ UNCHANGED authReply
     ELSE /\ authReply' = [route |-> "requireAuth", next |-> TRUE]
          /\ UNCHANGED authCalls
  /\ UNCHANGED tokenStorage
  /\ AuthFrame

\* refreshTokens after its await: the new tokens are stored, requireAuth calls next()
RefreshCompleteOf(portalId) ==
  /\ [op |-> "refresh", portalId |-> portalId] \in authCalls
  /\ authCalls' = authCalls \ {[op |-> "refresh", portalId |-> portalId]}
  /\ \E expiresIn \in ExpiresIn :
       tokenStorage' = MapSet(tokenStorage, portalId, [expiresAt |-> now + expiresIn])
  /\ authReply' = [route |-> "requireAuth", next |-> TRUE]
  /\ AuthFrame

\* the token API rejects the refresh: requireAuth rejects and sends nothing
RefreshFails ==
  /\ \E c \in authCalls :
       /\ c.op = "refresh"
       /\ authCalls' = authCalls \ {c}
  /\ UNCHANGED <<tokenStorage, authReply>>
  /\ AuthFrame

\* POST /oauth/logout: removeTokens(portalId); 400 without a portalId
LogoutOf(portalId) ==
  /\ IF portalId = None
     THEN /\ authReply' = [route |-> "oauth/logout", status |-> 400]
          /\ UNCHANGED tokenStorage
     ELSE /\ tokenStorage' = MapDelete(tokenStorage, portalId)
          /\ authReply' = [route |-> "oauth/logout", status |-> 200,
                           loggedOut |-> portalId \in DOMAIN tokenStorage]
  /\ UNCHANGED authCalls
  /\ AuthFrame

NextAuth ==
  \/ \E portalId \in Portals : StoreTokensOf(portalId)
  \/ OAuthCallbackRefused
  \/ OAuthCallback
  \/ \E hubId \in Portals \cup {None} : ExchangeCompleteOf(hubId)
  \/ ExchangeFails
  \/ \E portalId \in Portals \cup {None} : RequireAuthOf(portalId)
  \/ \E portalId \in Portals : RefreshCompleteOf(portalId)
  \/ RefreshFails
  \/ \E portalId \in Portals \cup {None} : LogoutOf(portalId)
  \/ Tick

SpecAuth == InitAuth /\ [][NextAuth]_vars

\* ------------------------------------- two analyzeDocument invocations
\* Two invocations for different documents are in progress on the one event loop.
\* The variables of analyzeDocument and of the analyzer function it awaits hold the
\* invocation whose continuation runs; `parked` holds the locals of the other, which
\* waits at an await.  Module-level state is not part of either: config.openai.apiKey,
\* openaiClient, and the requests the client has sent.  The external service answers
\* the calls of an invocation as its `script` says, whatever else is in progress.
ConcurrentDocuments ==
  {[text |-> <<"unlimited liability">>, filename |-> "MSA-Acme.pdf"],
   [text |-> <<"signed by", "Confidential Information">>, filename |-> "scan001.pdf"],
   [text |-> <<"Termination">>, filename |-> "NDA_contract.PDF"]}

\* the locals of the invocation that runs
Locals ==
  [text |-> text, filename |-> filename, documentType |-> documentType,
   call |-> call, response |-> response, result |-> result,
   pc |-> pc, entities |-> entities, summary |-> summary,
   risks |-> risks, missingTerms |-> missingTerms, blockers |-> blockers,
   riskScore |-> riskScore, script |-> script]

\* analyzeDocument called on document, ingestDocument done
Ingested(document, answers) ==
  [text |-> document.text, filename |-> document.filename, documentType |-> None,
   call |-> [fn |-> None, pc |-> "idle"], response |-> Pending, result |-> JUndefined,
   pc |-> "ingested", entities |-> JUndefined, summary |-> JUndefined,
   risks |-> <<>>, missingTerms |-> <<>>, blockers |-> <<>>,
   riskScore |-> <<>>, script |-> answers]

InitConcurrent ==
  /\ InitConfig
  /\ returned = {}
  /\ actions = <<>>
  /\ AppIdle
  /\ AnalyzerIdle
  /\ pc = "ingested"
  /\ entities = JUndefined
  /\ summary = JUndefined
  /\ risks = <<>>
  /\ missingTerms = <<>>
  /\ blockers = <<>>
  /\ riskScore = <<>>
  /\ documentType = None
  /\ \E document \in ConcurrentDocuments :
       /\ text = document.text
       /\ filename = document.filename
       /\ script \in Scripts
       /\ \E other \in ConcurrentDocuments \ {document} :
            parked \in {Ingested(other, answers) : answers \in Scripts}

\* the external service settles the pending request of the invocation that runs
ServiceResponds ==
  /\ call.pc = "awaiting"
  /\ response = Pending
  /\ response' = script[call.fn]
  /\ UNCHANGED <<apiKey, openaiClient, requests, call, result>>
  /\ UNCHANGED <<scoreVars, docVars, pipelineVars>>
  /\ UNCHANGED <<appVars, concVars>>

\* the locals change places, as if `result` were module-level and stayed behind
Switch_SharedResult ==
  /\ parked' = Locals
  /\ text' = parked.text
  /\ filename' = parked.filename
  /\ documentType' = parked.documentType
  /\ call' = parked.call
  /\ response' = parked.response
  /\ pc' = parked.pc
  /\ entities' = parked.entities
  /\ summary' = parked.summary
  /\ risks' = parked.risks
  /\ missingTerms' = parked.missingTerms
  /\ blockers' = parked.blockers
  /\ riskScore' = parked.riskScore
  /\ script' = parked.script
  /\ UNCHANGED <<result, apiKey, openaiClient, requests, returned, actions, appVars>>

\* at an await the event loop turns to the other invocation: the locals of the two
\* change places, the module-level state stays
Switch ==
  /\ parked' = Locals
  /\ text' = parked.text
  /\ filename' = parked.filename
  /\ documentType' = parked.documentType
  /\ call' = parked.call
  /\ response' = parked.response
  /\ result' = parked.result
  /\ pc' = parked.pc
  /\ entities' = parked.entities
  /\ summary' = parked.summary
  /\ risks' = parked.risks
  /\ missingTerms' = parked.missingTerms
  /\ blockers' = parked.blockers
  /\ riskScore' = parked.riskScore
  /\ script' = parked.script
  /\ UNCHANGED <<apiKey, openaiClient, requests, returned, actions, appVars>>

NextConcurrent == ProgramStep \/ ServiceResponds \/ Switch

SpecConcurrent == InitConcurrent /\ [][NextConcurrent]_vars

\* ------------------------------------------------ claims about the score
Scored == "calculateRiskScore" \in returned

Actioned == "generateRequiredActions" \in returned

\* the tables of the claims, in points and in quarters of a point
WEIGHT ==
  [missing_clause |-> 15, unfavorable_terms |-> 20, compliance_issue |-> 25,
   liability_exposure |-> 30, termination_risk |-> 15, payment_risk |-> 20,
   legal_ambiguity |-> 10]

MULT4 == [low |-> 1, medium |-> 2, high |-> 3, critical |-> 4]

PENALTY == [required |-> 10, recommended |-> 5, optional |-> 2]

\* number of indices of s whose element satisfies the test given as a set of elements
CountIn(s, S) == Cardinality({i \in 1..Len(s) : s[i] \in S})

\* sum over the risks of the categories cats of WEIGHT * MULT, in quarters
RECURSIVE RiskSum4(_, _)
RiskSum4(rs, cats) ==
  IF rs = <<>> THEN 0
  ELSE (IF Head(rs).category \in cats
        THEN WEIGHT[Head(rs).category] * MULT4[Head(rs).severity] ELSE 0)
       + RiskSum4(Tail(rs), cats)

TermSum4(ts) ==
  4 * (CountIn(ts, {[importance |-> "required"]}) * PENALTY["required"]
       + CountIn(ts, {[importance |-> "recommended"]}) * PENALTY["recommended"]
       + CountIn(ts, {[importance |-> "optional"]}) * PENALTY["optional"])

\* T of the claim, in quarters
Total4(rs, ts, bs) == RiskSum4(rs, RiskCategory) + TermSum4(ts) + 4 * 5 * Len(bs)

\* nearest integer to q quarters, halves rounded up
Nearest(q) == CHOOSE n \in {q \div 4, q \div 4 + 1} : 4 * n - 2 <= q /\ q < 4 * n + 2

\* all lists that are permutations of s
RECURSIVE Perms(_)
Perms(s) ==
  IF s = <<>> THEN {<<>>}
  ELSE UNION {{SubSeq(p, 1, k) \o <<s[1]>> \o SubSeq(p, k + 1, Len(p)) : k \in 0..Len(p)} :
              p \in Perms(Tail(s))}

\* C1: overall is an integer in [0,100] and each of the four breakdown buckets is
\* an integer in [0,25], for every list of risks, missing terms and blockers.
C1_ScoreInRange ==
  Scored =>
    /\ riskScore.overall \in 0..100
    /\ DOMAIN riskScore.breakdown = Buckets
    /\ \A b \in Buckets : riskScore.breakdown[b] \in 0..25

\* C1 witness: a score returned for inputs whose raw total exceeds 100 points and
\* whose liability bucket exceeds 25 points, so both caps acted.
C1_Witness ==
  /\ Scored
  /\ Total4(risks, missingTerms, blockers) > 4 * 100
  /\ RiskSum4(risks, {"liability_exposure"}) > 4 * 25
  /\ riskScore.overall = 100

\* C2: calculateRiskScore is order-independent: permuting the risks, the missing
\* terms and the blockers gives the identical RiskScore.
C2_OrderIndependent ==
  Scored =>
    \A pr \in Perms(risks) : \A pt \in Perms(missingTerms) : \A pb \in Perms(blockers) :
      calculateRiskScore(pr, pt, pb) = riskScore

\* C2 witness: a score returned for two risks of different categories and
\* severities, whose list has two different orders.
C2_Witness ==
  /\ Scored
  /\ Len(risks) = 2
  /\ risks[1].category # risks[2].category
  /\ risks[1].severity # risks[2].severity
  /\ riskScore.overall > 0

\* C3: overall = min(100, round(T)), T the sum of WEIGHT * MULT over the risks plus
\* the missing-term penalties plus 5 per blocker, halves rounded up; three empty
\* inputs give overall 0, all buckets 0 and grade A.
C3_OverallFormula ==
  Scored =>
    /\ LET T == Total4(risks, missingTerms, blockers)
       IN  riskScore.overall = (IF Nearest(T) > 100 THEN 100 ELSE Nearest(T))
    /\ (risks = <<>> /\ missingTerms = <<>> /\ blockers = <<>>) =>
         /\ riskScore.overall = 0
         /\ \A b \in Buckets : riskScore.breakdown[b] = 0
         /\ riskScore.grade = "A"

\* C3 witness: a score whose raw total lies exactly half way between two integers
\* (one high legal_ambiguity risk, 7.5 points), returned as the upper one.
C3_Witness ==
  /\ Scored
  /\ Total4(risks, missingTerms, blockers) % 4 = 2
  /\ risks = <<[category |-> "legal_ambiguity", severity |-> "high"]>>
  /\ riskScore.overall = 8

\* the raw bucket sums of the claim, in quarters
RawBucket4(rs, ts) ==
  [missingClauses |-> RiskSum4(rs, {"missing_clause"}) + TermSum4(ts),
   unfavorableTerms |-> RiskSum4(rs, {"unfavorable_terms", "termination_risk", "payment_risk"}),
   complianceIssues |-> RiskSum4(rs, {"compliance_issue", "legal_ambiguity"}),
   liabilityExposure |-> RiskSum4(rs, {"liability_exposure"})]

\* C4: each bucket = min(25, round(raw bucket sum)) with the claim's routing of
\* categories and missing-term penalties, blockers change no bucket, and one critical
\* liability_exposure risk alone gives overall 30, liabilityExposure 25, others 0, grade B.
C4_BucketFormula ==
  Scored =>
    /\ \A b \in Buckets :
         LET raw == RawBucket4(risks, missingTerms)[b]
         IN  riskScore.breakdown[b] = (IF Nearest(raw) > 25 THEN 25 ELSE Nearest(raw))
    /\ riskScore.breakdown = calculateRiskScore(risks, missingTerms, <<>>).breakdown
    /\ (/\ risks = <<[category |-> "liability_exposure", severity |-> "critical"]>>
        /\ missingTerms = <<>>
        /\ blockers = <<>>) =>
         /\ riskScore.overall = 30
         /\ riskScore.grade = "B"
         /\ riskScore.breakdown =
              [missingClauses |-> 0, unfavorableTerms |-> 0,
               complianceIssues |-> 0, liabilityExposure |-> 25]

\* C4 witness: the score of one critical liability_exposure risk alone, capped in
\* its bucket and not in overall.
C4_Witness ==
  /\ Scored
  /\ risks = <<[category |-> "liability_exposure", severity |-> "critical"]>>
  /\ missingTerms = <<>>
  /\ blockers = <<>>
  /\ riskScore.breakdown["liabilityExposure"] = 25
  /\ riskScore.overall = 30

\* the grade bands of the claim
Band(overall) ==
  {g \in RiskGrade :
     \/ g = "A" /\ 0 <= overall /\ overall <= 20
     \/ g = "B" /\ 21 <= overall /\ overall <= 40
     \/ g = "C" /\ 41 <= overall /\ overall <= 60
     \/ g = "D" /\ 61 <= overall /\ overall <= 80
     \/ g = "F" /\ 81 <= overall /\ overall <= 100}

\* every integer of 0..100 lies in exactly one band, the one calculateGrade returns
GradeBandsTotal == \A o \in 0..100 : Band(o) = {calculateGrade(o)}

\* C5: the grade is a total function of overall with exhaustive, non-overlapping
\* bands: A 0..20, B 21..40, C 41..60, D 61..80, F 81..100.
C5_GradeBands ==
  /\ GradeBandsTotal
  /\ (Scored => Band(riskScore.overall) = {riskScore.grade})

\* C5 witness: a returned score just above a band boundary (overall 21, grade B).
C5_Witness ==
  /\ Scored
  /\ riskScore.overall = 21
  /\ riskScore.grade = "B"

\* C10: one action per critical risk (urgent) and per high risk (high), none for low
\* or medium risks, one per blocker (urgent for missing_signature, otherwise high),
\* one per required missing term (medium), no deduplication, all pending, none low.
C10_ActionsGenerated ==
  Actioned =>
    LET nCritical == CountIn(risks, {r \in DocumentRisk : r.severity = "critical"})
        nHigh == CountIn(risks, {r \in DocumentRisk : r.severity = "high"})
        nSignature == CountIn(blockers, {[type |-> "missing_signature"]})
        nRequired == CountIn(missingTerms, {[importance |-> "required"]})
        WithPriority(p) == Cardinality({i \in 1..Len(actions) : actions[i].priority = p})
    IN  /\ Len(actions) = nCritical + nHigh + Len(blockers) + nRequired
        /\ WithPriority("urgent") = nCritical + nSignature
        /\ WithPriority("high") = nHigh + (Len(blockers) - nSignature)
        /\ WithPriority("medium") = nRequired
        /\ WithPriority("low") = 0
        /\ \A i \in 1..Len(actions) : actions[i].status = "pending"
        /\ Cardinality({actions[i].from : i \in 1..Len(actions)}) = Len(actions)

\* C10 witness: actions returned for three identical high risks, two required
\* missing terms and a blocker: six actions, nothing merged.
C10_Witness ==
  /\ Actioned
  /\ risks = Fill([category |-> "payment_risk", severity |-> "high"], 3)
  /\ missingTerms = Fill([importance |-> "required"], 2)
  /\ blockers = <<[type |-> "legal_review"]>>
  /\ Len(actions) = 6

\* --------------------------------------------- claims about the analyzer
\* a direct call of an analyzer function has ended
CallEnded == pc = "idle" /\ call.pc \in {"returned", "thrown"}

\* the pattern/rule-based result of the function called, for the same input
PatternResult ==
  CASE call.fn = "extractEntities" -> JArray(extractEntitiesWithPatterns(text))
    [] call.fn = "identifyRisks" -> JArray(identifyRisksWithRules(text, documentType))
    [] call.fn = "generateSummary" -> JString(generateBasicSummary(text, documentType))

\* the external call throws
CallThrows == response.kind = "rejects"

\* the external call returns an error: a body without choices
ReturnsError == response.kind = "resolves" /\ response.choices.t # "array"

HasMessage ==
  /\ response.kind = "resolves"
  /\ response.choices.t = "array"
  /\ response.choices.items # <<>>

MessageContent == response.choices.items[1].message.content

\* the external call returns no content: no choice, null, or the empty string
EmptyContent ==
  /\ response.kind = "resolves"
  /\ response.choices.t = "array"
  /\ (HasMessage => MessageContent \in {JNull, JString(Lit(""))})

\* the external call returns content that is not JSON
Unparseable ==
  /\ HasMessage
  /\ MessageContent.t = "string"
  /\ MessageContent.v # Lit("")
  /\ JSONparse(MessageContent.v.lit).type = "throw"

\* C6 as stated: with a key configured, when the external call throws, returns an error,
\* returns empty content or returns content that cannot be parsed, each of the three
\* functions returns exactly its fallback result and no exception reaches the caller.
C6_FallbackOnEveryFailure ==
  (apiKey /\ CallEnded /\ (CallThrows \/ ReturnsError \/ EmptyContent \/ Unparseable)) =>
    /\ call.pc = "returned"
    /\ result = PatternResult

\* C6 amended: extractEntities and identifyRisks return their fallback in the four cases;
\* generateSummary returns its fallback when the call throws, returns an error or returns
\* empty content, and returns non-empty content as it is, since it parses nothing;
\* no exception reaches the caller.
C6_FallbackOnFailure ==
  (apiKey /\ CallEnded /\ (CallThrows \/ ReturnsError \/ EmptyContent \/ Unparseable)) =>
    /\ call.pc = "returned"
    /\ IF call.fn = "generateSummary" /\ Unparseable
       THEN result = MessageContent
       ELSE result = PatternResult

\* C6 witness: identifyRisks has returned the rule-based risks of a text with an
\* unfavorable term after the analyzer answered with content that is not JSON.
C6_Witness ==
  /\ apiKey
  /\ CallEnded
  /\ call.fn = "identifyRisks"
  /\ Unparseable
  /\ text = <<"unlimited liability">>
  /\ result.t = "array"
  /\ Len(result.items) = 5

\* C7: without a key the three functions never create the client, never issue an
\* external call, and return exactly their pattern/rule-based result.
C7_NoKeyNoCall ==
  (~apiKey /\ pc = "idle") =>
    /\ openaiClient = "null"
    /\ requests = <<>>
    /\ response = Pending
    /\ call.pc \in {"idle", "returned"}
    /\ (call.pc = "returned" => result = PatternResult)

\* C7 witness: without a key, extractEntities has returned the two pattern entities
\* of a text with a date and an amount.
C7_Witness ==
  /\ ~apiKey
  /\ pc = "idle"
  /\ call = [fn |-> "extractEntities", pc |-> "returned"]
  /\ text = <<"$50,000.00", "01/15/2024">>
  /\ result = JArray(<<[type |-> "date", value |-> "01/15/2024", confidence |-> 8],
                       [type |-> "amount", value |-> "$50,000.00", confidence |-> 9]>>)

\* C8: whatever the external call gives, JSON of an unexpected shape included,
\* extractEntities and identifyRisks return a list and never throw.
C8_AlwaysAList ==
  (CallEnded /\ call.fn \in {"extractEntities", "identifyRisks"}) =>
    /\ call.pc = "returned"
    /\ result.t = "array"

\* C9: every analyzeDocument invocation whose ingestion succeeded eventually returns a
\* DocumentAnalysis, also when an external analyzer call never answers.
C9_AnalysisReturns == (pc = "ingested") ~> (pc = "done")

\* ------------------------------------------ claims about the ordering
\* rank of a priority as the claim gives it: urgent < high < medium < low
RANK == [urgent |-> 0, high |-> 1, medium |-> 2, low |-> 3]

\* rank of the list an action was generated from: risks, blockers, missing terms
SOURCE == [risk |-> 0, blocker |-> 1, term |-> 2]

\* generated earlier: from an earlier list, or from the same list at a smaller index
GeneratedBefore(a, b) ==
  \/ SOURCE[a.from[1]] < SOURCE[b.from[1]]
  \/ a.from[1] = b.from[1] /\ a.from[2] < b.from[2]

\* C11: the actions returned are sorted by priority rank, and among actions of equal
\* priority those from risks precede those from blockers, which precede those from
\* missing terms, each source keeping the order of its input list.
C11_SortedStable ==
  Actioned =>
    \A i \in 1..Len(actions) : \A j \in (i + 1)..Len(actions) :
      /\ RANK[actions[i].priority] <= RANK[actions[j].priority]
      /\ RANK[actions[i].priority] = RANK[actions[j].priority] =>
           GeneratedBefore(actions[i], actions[j])

\* C11 witness: two high risks, two missing_signature blockers and a required term:
\* the blockers, pushed after the risks, come first, each pair in input order.
C11_Witness ==
  /\ Actioned
  /\ Len(risks) = 2
  /\ Len(blockers) = 2
  /\ [i \in 1..Len(actions) |-> actions[i].from] =
       <<(<<"blocker", 1>>), (<<"blocker", 2>>), (<<"risk", 1>>), (<<"risk", 2>>), (<<"term", 1>>)>>
  /\ [i \in 1..Len(actions) |-> actions[i].priority] =
       <<"urgent", "urgent", "high", "high", "medium">>

\* ------------------------------- claims about the rule-based functions
\* a direct call of fn has returned
Called(fn) == pc = "idle" /\ call = [fn |-> fn, pc |-> "returned"]

\* the phrases of the vocabulary that contain 'signature' or 'signed by' in any case
SIGNED == {"Signature", "signed by"}

Unsigned == \A i \in 1..Len(text) : text[i] \notin SIGNED

IsCritical(r) == r.severity = "critical"

IsRequiredTerm(t) == t.importance = "required"

\* C12: identifyBlockers returns one missing_signature blocker iff the text has neither
\* 'signature' nor 'signed by', then one legal_review blocker per critical risk in input
\* order, then one negotiation_required blocker per required missing term in input
\* order, and nothing else; with no signature word and no findings, exactly the
\* missing_signature blocker.
C12_BlockersByRule ==
  Called("identifyBlockers") =>
    LET critical == SelectSeq(risks, IsCritical)
        required == SelectSeq(missingTerms, IsRequiredTerm)
        s == IF Unsigned THEN 1 ELSE 0
        bs == result.items
    IN  /\ result.t = "array"
        /\ Len(bs) = s + Len(critical) + Len(required)
        /\ Unsigned => bs[1].type = "missing_signature"
        /\ \A k \in 1..Len(critical) :
             /\ bs[s + k].type = "legal_review"
             /\ bs[s + k].title = <<"Critical Risk", critical[k].title>>
        /\ \A k \in 1..Len(required) :
             /\ bs[s + Len(critical) + k].type = "negotiation_required"
             /\ bs[s + Len(critical) + k].title = <<"Missing", required[k].term>>
        /\ (Unsigned /\ risks = <<>> /\ missingTerms = <<>>) =>
             (Len(bs) = 1 /\ bs[1].type = "missing_signature")

\* C12 witness: a text without a signature word, a critical risk after a high one and
\* no missing term: the blockers are missing_signature, then legal_review for the
\* critical risk.
C12_Witness ==
  /\ Called("identifyBlockers")
  /\ text = <<"Termination">>
  /\ Len(risks) = 2
  /\ risks[1].severity = "high"
  /\ risks[2].severity = "critical"
  /\ [k \in 1..Len(result.items) |-> result.items[k].type] =
       <<"missing_signature", "legal_review">>

\* the five standard clauses, each with the phrases of the vocabulary in which one of
\* its keywords occurs
CLAUSES ==
  [termination |-> {"Termination"},
   liability |-> {"unlimited liability"},
   indemnification |-> {"indemnify"},
   confidentiality |-> {"Confidential Information", "proprietary"},
   governing_law |-> {"governing law"}]

CLAUSE_NAME ==
  [termination |-> "termination", liability |-> "liability",
   indemnification |-> "indemnification", confidentiality |-> "confidentiality",
   governing_law |-> "governing law"]

\* the four unfavorable patterns: title, severity, and the phrases they match
UNFAVORABLE ==
  {[title |-> "Unlimited Liability", severity |-> "high", phrases |-> {"unlimited liability"}],
   [title |-> "Rights Waiver", severity |-> "medium", phrases |-> {"waive all rights"}],
   [title |-> "Auto-Renewal", severity |-> "low", phrases |-> {"automatic renewal"}],
   [title |-> "Non-Compete Clause", severity |-> "medium", phrases |-> {"non-compete"}]}

Occurs(phrases) == \E i \in 1..Len(text) : text[i] \in phrases

\* how many times risk r is in the list rs
Times(rs, r) == Cardinality({k \in 1..Len(rs) : rs[k] = r})

MissingClauseRisk(c) ==
  [category |-> "missing_clause", severity |-> "medium",
   title |-> <<"Missing clause", CLAUSE_NAME[c]>>]

UnfavorableRisk(u) ==
  [category |-> "unfavorable_terms", severity |-> u.severity, title |-> <<u.title>>]

\* C13: the rule-based risks are one medium missing_clause risk for each of the five
\* standard clauses none of whose keywords occurs in the text, one unfavorable_terms
\* risk of the stated severity for each of the four patterns that matches, and nothing
\* else; a text with no clause keyword gives exactly 5 missing_clause risks, all medium.
C13_RisksByRule ==
  (Called("identifyRisks") /\ ~apiKey) =>
    LET rs == result.items
        absent == {c \in DOMAIN CLAUSES : ~Occurs(CLAUSES[c])}
        matched == {u \in UNFAVORABLE : Occurs(u.phrases)}
        missing == {k \in 1..Len(rs) : rs[k].category = "missing_clause"}
    IN  /\ result.t = "array"
        /\ \A c \in DOMAIN CLAUSES :
             Times(rs, MissingClauseRisk(c)) = (IF c \in absent THEN 1 ELSE 0)
        /\ \A u \in UNFAVORABLE :
             Times(rs, UnfavorableRisk(u)) = (IF u \in matched THEN 1 ELSE 0)
        /\ Len(rs) = Cardinality(absent) + Cardinality(matched)
        /\ absent = DOMAIN CLAUSES =>
             (Cardinality(missing) = 5 /\ \A k \in missing : rs[k].severity = "medium")

\* C13 witness: 'waive all rights' holds no clause keyword and matches the rights
\* waiver pattern: five medium missing_clause risks and one medium unfavorable_terms.
C13_Witness ==
  /\ Called("identifyRisks")
  /\ ~apiKey
  /\ text = <<"waive all rights">>
  /\ Len(result.items) = 6
  /\ Times(result.items, [category |-> "unfavorable_terms", severity |-> "medium",
                          title |-> <<"Rights Waiver">>]) = 1

\* the phrases of the vocabulary in which 'term', 'duration' or 'period' occurs
TERM_PHRASES == {"Termination", "term of 12 months", "terms and conditions of this agreement"}

\* the checklists of the claim: each entry with the phrases of the vocabulary in which
\* one of its keywords occurs
CHECKLIST ==
  [contract |->
     <<[term |-> "Effective Date", phrases |-> {"payment on the effective date"}],
       [term |-> "Term Duration", phrases |-> TERM_PHRASES],
       [term |-> "Payment Terms", phrases |-> {"payment on the effective date"}],
       [term |-> "Termination Clause", phrases |-> {"Termination"}],
       [term |-> "Signatures", phrases |-> {"Signature", "signed by"}]>>,
   nda |->
     <<[term |-> "Definition of Confidential Information",
        phrases |-> {"Confidential Information"}],
       [term |-> "Obligations of Receiving Party", phrases |-> {"receiving party"}],
       [term |-> "Term of Confidentiality", phrases |-> TERM_PHRASES],
       [term |-> "Permitted Disclosures", phrases |-> {}]>>,
   proposal |->
     <<[term |-> "Scope of Work",
        phrases |-> {"scope and timeline", "statement of work deliverables"}],
       [term |-> "Timeline", phrases |-> {"scope and timeline"}],
       [term |-> "Pricing", phrases |-> {}],
       [term |-> "Terms and Conditions",
        phrases |-> {"terms and conditions of this agreement"}]>>]

ChecklistOf(docType) ==
  IF docType \in {"contract", "nda", "proposal"} THEN CHECKLIST[docType]
  ELSE CHECKLIST["contract"]

EntryAbsent(e) == ~Occurs(e.phrases)

\* C14: identifyMissingTerms takes the checklist of contract (5 entries), nda (4) or
\* proposal (4), the contract checklist for every other type, and returns exactly one
\* missing term per entry none of whose keywords occurs in the text, in checklist
\* order, each of importance required.
C14_MissingTermsByChecklist ==
  Called("identifyMissingTerms") =>
    LET absent == SelectSeq(ChecklistOf(documentType), EntryAbsent)
    IN  /\ Len(CHECKLIST["contract"]) = 5
        /\ Len(CHECKLIST["nda"]) = 4
        /\ Len(CHECKLIST["proposal"]) = 4
        /\ result = JArray([k \in 1..Len(absent) |->
                              [term |-> absent[k].term, importance |-> "required"]])

\* C14 witness: an invoice is checked against the contract checklist; 'Termination'
\* holds 'term' and 'termination', so three of the five entries are missing.
C14_Witness ==
  /\ Called("identifyMissingTerms")
  /\ documentType = "invoice"
  /\ text = <<"Termination">>
  /\ [k \in 1..Len(result.items) |-> result.items[k].term] =
       <<"Effective Date", "Payment Terms", "Signatures">>

\* ------------------------------------------ claims about classification
\* the marker groups found in each filename of the vocabulary, whatever the case
GROUPS_IN(fname) ==
  CASE fname = "MSA-Acme.pdf" -> {"msa"}
    [] fname = "NDA_contract.PDF" -> {"nda", "contract"}
    [] fname = "Proposal-Agreement.docx" -> {"proposal", "agreement"}
    [] fname = "invoice_sow.pdf" -> {"invoice", "sow"}
    [] fname = "Master Service Agreement.pdf" -> {"agreement", "msa"}
    [] fname = "statement of work.pdf" -> {"sow"}
    [] OTHER -> {}

FILENAME_ORDER == <<"nda", "proposal", "contract", "agreement", "invoice", "sow", "msa">>

\* the first type of order that is in the set found ("unknown" when there is none)
FirstOf(order, found) ==
  IF \E i \in 1..Len(order) : order[i] \in found
  THEN order[CHOOSE i \in 1..Len(order) :
               order[i] \in found /\ \A j \in 1..(i - 1) : order[j] \notin found]
  ELSE "unknown"

DetectedType == result.v.lit

\* the types detectDocumentType gives for a filename over all the texts
TypesByFilename ==
  [fname \in RuleFilenames |-> {detectDocumentType(other, fname) : other \in RuleTexts}]

\* C15: when the filename holds a marker, detectDocumentType returns the type of the
\* first matching group in the order nda, proposal, contract, agreement, invoice, sow,
\* msa, and returns it for every text.
C15_FilenameFirst ==
  (Called("detectDocumentType") /\ GROUPS_IN(filename) # {}) =>
    /\ DetectedType = FirstOf(FILENAME_ORDER, GROUPS_IN(filename))
    /\ TypesByFilename[filename] = {DetectedType}
    /\ filename = "MSA-Acme.pdf" => DetectedType = "msa"

\* C15 witness: 'MSA-Acme.pdf' with a text holding two nda keywords is an msa.
C15_Witness ==
  /\ Called("detectDocumentType")
  /\ filename = "MSA-Acme.pdf"
  /\ text = <<"Confidential Information", "proprietary">>
  /\ DetectedType = "msa"

\* the type keywords, as <<type, keyword>>, that occur in a phrase of the vocabulary
TYPE_KEYWORDS_IN(tok) ==
  CASE tok = "Confidential Information" -> {<<"nda", "confidential information">>}
    [] tok = "proprietary" -> {<<"nda", "proprietary">>}
    [] tok = "pricing quote" -> {<<"proposal", "pricing">>, <<"proposal", "quote">>}
    [] tok = "terms and conditions of this agreement" ->
         {<<"contract", "agreement">>, <<"contract", "terms and conditions">>}
    [] tok = "invoice amount due" -> {<<"invoice", "invoice">>, <<"invoice", "amount due">>}
    [] tok = "statement of work deliverables" ->
         {<<"sow", "statement of work">>, <<"sow", "deliverables">>}
    [] tok = "master agreement and master service agreement" ->
         {<<"msa", "master agreement">>, <<"msa", "master service agreement">>,
          <<"contract", "agreement">>}
    [] OTHER -> {}

CONTENT_ORDER == <<"nda", "proposal", "contract", "invoice", "sow", "msa">>

\* the number of keywords of type ty that occur in the text
KeywordCount(ty) ==
  Cardinality({p \in UNION {TYPE_KEYWORDS_IN(text[i]) : i \in 1..Len(text)} : p[1] = ty})

\* C16: when the filename holds no marker, detectDocumentType returns the first type
\* in the order nda, proposal, contract, invoice, sow, msa with at least 2 of its
\* keywords in the text, whatever later types match, and unknown when there is none;
\* on every input the result is one of the eight document types.
C16_ContentThreshold ==
  Called("detectDocumentType") =>
    /\ result.t = "string"
    /\ DetectedType \in DocumentType
    /\ Cardinality(DocumentType) = 8
    /\ GROUPS_IN(filename) = {} =>
         DetectedType =
           FirstOf(CONTENT_ORDER, {ty \in DocumentType : KeywordCount(ty) >= 2})

\* C16 witness: no marker in 'scan001.pdf'; the text holds two contract keywords and
\* two msa keywords (three 'agreement' hits count once): the earlier type, contract.
C16_Witness ==
  /\ Called("detectDocumentType")
  /\ filename = "scan001.pdf"
  /\ text = <<"master agreement and master service agreement",
              "terms and conditions of this agreement">>
  /\ KeywordCount("msa") = 2
  /\ DetectedType = "contract"

\* ------------------------------------------ claims about analyzeDocument
\* the missing terms of the text for the detected type, by the checklists of the claim
MissingOfText ==
  LET absent == SelectSeq(ChecklistOf(documentType), EntryAbsent)
  IN  [k \in 1..Len(absent) |-> [term |-> absent[k].term, importance |-> "required"]]

\* the blockers of the text, the risks rs and the missing terms ts
BlockersOf(rs, ts) ==
  LET critical == SelectSeq(rs, IsCritical)
      required == SelectSeq(ts, IsRequiredTerm)
  IN  (IF Unsigned
       THEN <<[type |-> "missing_signature", title |-> <<"Signatures Required">>]>>
       ELSE <<>>)
      \o [k \in 1..Len(critical) |->
            [type |-> "legal_review", title |-> <<"Critical Risk", critical[k].title>>]]
      \o [k \in 1..Len(required) |->
            [type |-> "negotiation_required", title |-> <<"Missing", required[k].term>>]]

\* C17: in analyzeDocument, blocker identification starts only when identifyRisks has
\* returned and identifyMissingTerms has completed, and works on exactly their
\* results; the score is computed only when the blockers are there, on exactly the
\* risks, missing terms and blockers of the DocumentAnalysis returned.
C17_PipelineOrder ==
  [][/\ (pc' = "identifyBlockers" /\ pc # "identifyBlockers") =>
          /\ pc = "identifyMissingTerms"
          /\ call = [fn |-> "identifyRisks", pc |-> "returned"]
          /\ risks' = result.items
          /\ missingTerms' = MissingOfText
     /\ (pc = "identifyBlockers" /\ pc' # "identifyBlockers") =>
          /\ blockers' = BlockersOf(risks, missingTerms)
          /\ riskScore' = calculateRiskScore(risks, missingTerms, blockers')
          /\ UNCHANGED <<risks, missingTerms>>
     /\ pc # "identifyBlockers" => UNCHANGED <<blockers, riskScore>>
     /\ pc \in {"generateSummary", "done"} => UNCHANGED <<risks, missingTerms>>
     /\ pc' = "done" =>
          /\ blockers' = BlockersOf(risks', missingTerms')
          /\ riskScore' = calculateRiskScore(risks', missingTerms', blockers')
    ]_vars

\* C17 witness: an analysis returned with the two risks of the analyzer, the critical
\* one turned into a legal_review blocker, and a score computed from them.
C17_Witness ==
  /\ pc = "done"
  /\ apiKey
  /\ Len(risks) = 2
  /\ risks[1].severity = "critical"
  /\ missingTerms # <<>>
  /\ \E k \in 1..Len(blockers) : blockers[k].type = "legal_review"
  /\ riskScore.overall > 0

\* ----------------------------------------------- end-to-end scoring claim
CriticalLiability == [category |-> "liability_exposure", severity |-> "critical"]

ThreeCriticalRisks ==
  /\ risks = <<CriticalLiability, CriticalLiability, CriticalLiability>>
  /\ missingTerms = <<>>
  /\ blockers = <<>>

\* C18: for three critical liability_exposure risks, no missing terms and no blockers,
\* calculateRiskScore gives overall 90 with grade F and generateRequiredActions gives
\* exactly 3 actions, all urgent.
C18_ThreeCriticalRisks ==
  ThreeCriticalRisks =>
    /\ Scored => (riskScore.overall = 90 /\ riskScore.grade = "F")
    /\ Actioned =>
         /\ Len(actions) = 3
         /\ \A k \in 1..Len(actions) : actions[k].priority = "urgent"

\* C18 witness: both functions have returned on the three critical risks.
C18_Witness ==
  /\ ThreeCriticalRisks
  /\ Scored
  /\ Actioned
  /\ riskScore.overall = 90
  /\ Len(actions) = 3
\* ------------------------------------------- claims about the document store
\* a stored analysis without its analyzedAt
Frozen(analysis) == [field \in DOMAIN analysis \ {"analyzedAt"} |-> analysis[field]]

STORED_FIELDS ==
  {"documentId", "filename", "documentType", "uploadedAt", "analyzedAt", "entities", "risks",
   "missingTerms", "blockers", "riskScore", "summary", "rawText"}

\* the request served by this step is a reanalyze of documentId, by either route
ReanalyzeOf(documentId) ==
  ReanalyzeDocument(documentId) \/ WebhookActionOn("reanalyze", documentId)

\* C19: no step changes any field other than analyzedAt of an analysis that stays
\* stored; a reanalyze (route or webhook action) of a stored document changes nothing
\* but analyzedAt of that analysis, keeps every other stored analysis and every deal
\* association, and a reanalyze of an unknown documentId changes nothing in the store
C19_ReanalyzeTouchesOnlyAnalyzedAt ==
  [][/\ \A id \in DOMAIN documentStore \cap DOMAIN documentStore' :
          /\ DOMAIN documentStore'[id] = STORED_FIELDS
          /\ Frozen(documentStore'[id]) = Frozen(documentStore[id])
     /\ \A id \in DocumentIds :
          ReanalyzeOf(id) =>
            /\ DOMAIN documentStore' = DOMAIN documentStore
            /\ \A other \in DOMAIN documentStore \ {id} :
                 documentStore'[other] = documentStore[other]
            /\ dealDocuments' = dealDocuments
            /\ id \notin DOMAIN documentStore => documentStore' = documentStore
    ]_vars

\* two documents are stored, one of them reanalyzed later than it was uploaded, and
\* the request just answered was a reanalyze
C19_Witness ==
  /\ reply.route \in {"reanalyze", "webhooks/action"}
  /\ reply.status = 200
  /\ Cardinality(DOMAIN documentStore) = 2
  /\ \E id \in DOMAIN documentStore :
       documentStore[id].analyzedAt > documentStore[id].uploadedAt
\* ------------------------------------- claims about concurrent invocations
\* what the invocation with locals l returns when nothing else is in progress; the
\* analyzer client is no argument of it
RunAlone(l) == analyzeDocument(l.text, l.filename, l.script)

RESULT_FIELDS == {"documentType", "entities", "risks", "missingTerms", "blockers", "riskScore"}

SameAsAlone(l) ==
  /\ l.pc = "done" =>
       /\ RunAlone(l).type # "throw"
       /\ \A field \in RESULT_FIELDS : l[field] = RunAlone(l).value[field]
  /\ l.pc = "rejected" => RunAlone(l).type = "throw"

\* both invocations have issued their first request before either went on
Interleaved ==
  /\ Len(requests) >= 2
  /\ requests[1] = "extractEntities"
  /\ requests[2] = "extractEntities"

\* C20: in every interleaving of two analyzeDocument invocations at their awaits, an
\* invocation that has returned holds the documentType, entities, risks, missing
\* terms, blockers and riskScore it returns when run alone on its document with the
\* same answers of the service, and one that has rejected rejects alone, whether
\* the analyzer client existed before, was created by this invocation or by the other
C20_NoInteraction == SameAsAlone(Locals) /\ SameAsAlone(parked)

\* both invocations have returned after interleaved calls through the one client,
\* with different risks and different scores
C20_Witness ==
  /\ pc = "done"
  /\ parked.pc = "done"
  /\ apiKey
  /\ Interleaved
  /\ risks # parked.risks
  /\ riskScore # parked.riskScore
  /\ entities # parked.entities
\* --------------------------------------------- claims about invalid input
\* the filenames of the vocabulary in which no type name occurs
UNTYPED_NAMES == {"scan001.pdf"}

\* analyzeDocument runs on an empty text under an untyped name, no analyzer configured
InvalidInput == text = <<>> /\ filename \in UNTYPED_NAMES /\ ~apiKey

\* analyzeDocument has the result of the analyzer function fn
Past(fn) ==
  CASE fn = "detectDocumentType" -> pc \notin {"ingested", "idle"}
    [] fn = "extractEntities" -> pc \notin {"ingested", "idle", "extractEntities"}
    [] fn = "identifyRisks" ->
         pc \notin {"ingested", "idle", "extractEntities", "identifyRisks"}

NothingThrown == pc # "rejected" /\ call.pc # "thrown"

FIVE_MISSING_CLAUSES ==
  <<MissingClauseRisk("termination"), MissingClauseRisk("liability"),
    MissingClauseRisk("indemnification"), MissingClauseRisk("confidentiality"),
    MissingClauseRisk("governing_law")>>

\* C21 as stated: on an empty text under an untyped name, with no analyzer configured,
\* nothing throws, extractEntities returns the empty list, detectDocumentType returns
\* unknown, and risk identification returns a list of length zero
C21_EmptyResults ==
  InvalidInput =>
    /\ NothingThrown
    /\ Past("detectDocumentType") => documentType = "unknown"
    /\ Past("extractEntities") => entities = JArray(<<>>)
    /\ Past("identifyRisks") => risks = <<>>

\* C21 amended: on an empty text under an untyped name, with no analyzer configured,
\* nothing throws, extractEntities returns the empty list, detectDocumentType returns
\* unknown, and risk identification returns the five medium missing_clause risks, one
\* per standard clause, and no other risk
C21_DefaultResults ==
  InvalidInput =>
    /\ NothingThrown
    /\ Past("detectDocumentType") => documentType = "unknown"
    /\ Past("extractEntities") => entities = JArray(<<>>)
    /\ Past("identifyRisks") => risks = FIVE_MISSING_CLAUSES

\* the analysis of the empty document has returned
C21_Witness ==
  /\ InvalidInput
  /\ pc = "done"
  /\ documentType = "unknown"
  /\ entities = JArray(<<>>)
  /\ Len(risks) = 5
\* ------------------------------------- claims about undeclared categories
\* the contribution of a risk in quarters, the weight of an unknown category 10
Contribution4(r) ==
  (IF r.category \in DOMAIN WEIGHT THEN WEIGHT[r.category] ELSE 10) * MULT4[r.severity]

RECURSIVE SumOver(_, _)
SumOver(rs, idx) ==
  IF idx = {} THEN 0
  ELSE LET i == CHOOSE i \in idx : TRUE
       IN  Contribution4(rs[i]) + SumOver(rs, idx \ {i})

Capped(q, cap) == IF Nearest(q) > cap THEN cap ELSE Nearest(q)

\* C22: the score returned is the score of a routing that gives every risk, of a
\* known or an unknown category, exactly one of the four buckets: the contributions
\* of all risks are in the total, and the contribution of each is in its bucket
C22_EveryRiskInOneBucket ==
  Scored =>
    \E route \in [1..Len(risks) -> Buckets] :
      /\ riskScore.overall =
           Capped(SumOver(risks, 1..Len(risks)) + TermSum4(missingTerms)
                  + 4 * 5 * Len(blockers), 100)
      /\ \A b \in Buckets :
           riskScore.breakdown[b] =
             Capped(SumOver(risks, {i \in 1..Len(risks) : route[i] = b})
                    + (IF b = "missingClauses" THEN TermSum4(missingTerms) ELSE 0), 25)
\* ---------------------------------- claims about unvalidated responses
\* C23: every analysis analyzeDocument returns with an analyzer configured, whatever
\* categories and severities the risks of the parsed response carry, has an overall
\* that is an integer in [0,100], buckets that are integers in [0,25], and the grade
\* of the band of overall
C23_AnalyzerScoreValid ==
  (pc = "done" /\ apiKey) =>
    /\ riskScore.overall \in 0..100
    /\ \A b \in Buckets : riskScore.breakdown[b] \in 0..25
    /\ Band(riskScore.overall) = {riskScore.grade}
\* ------------------------------------------- claims about blocker tracing
\* number of elements of the list s whose field has the value v
CountField(s, field, v) == Cardinality({k \in 1..Len(s) : s[k][field] = v})

\* the raw total of the analysis in quarters, every missing term counted 15 points
\* (its penalty and its blocker), every other blocker 5
TracedTotal4 ==
  SumOver(risks, 1..Len(risks)) + 4 * 15 * Len(missingTerms)
  + 4 * 5 * (Len(blockers) - Len(missingTerms))

\* C24: in a returned analysis there are as many legal_review blockers as critical
\* risks, as many negotiation_required blockers as required missing terms, at most
\* one missing_signature blocker and no other blocker; an analysis with a critical
\* risk or a missing term has a blocker; every missing term is required, so each adds
\* 15 points to the raw total the overall score is made of
C24_BlockersTraced ==
  pc = "done" =>
    /\ CountField(blockers, "type", "legal_review") = CountField(risks, "severity", "critical")
    /\ CountField(blockers, "type", "negotiation_required")
         = CountField(missingTerms, "importance", "required")
    /\ CountField(blockers, "type", "missing_signature") <= 1
    /\ \A k \in 1..Len(blockers) :
         blockers[k].type \in {"legal_review", "negotiation_required", "missing_signature"}
    /\ (CountField(risks, "severity", "critical") > 0 \/ missingTerms # <<>>) => blockers # <<>>
    /\ CountField(missingTerms, "importance", "required") = Len(missingTerms)
    /\ (\A k \in 1..Len(risks) : risks[k].severity \in RiskSeverity) =>
         riskScore.overall = Capped(TracedTotal4, 100)

\* an analysis returned with a critical risk of the analyzer, missing terms, a signed
\* text, and a score below the cap
C24_Witness ==
  /\ pc = "done"
  /\ CountField(risks, "severity", "critical") = 1
  /\ Len(missingTerms) >= 2
  /\ CountField(blockers, "type", "missing_signature") = 0
  /\ Len(blockers) = 1 + Len(missingTerms)
  /\ riskScore.overall < 100
  /\ riskScore.overall = Nearest(TracedTotal4)
\* -------------------------------------- claims about the sum of the buckets
BucketSum(score) ==
  score.breakdown["missingClauses"] + score.breakdown["unfavorableTerms"]
  + score.breakdown["complianceIssues"] + score.breakdown["liabilityExposure"]

\* 3.75 and 2.5 points in two buckets: rounded apart 4 + 3, rounded together 6
RoundedApart ==
  <<[category |-> "missing_clause", severity |-> "low"],
    [category |-> "legal_ambiguity", severity |-> "low"]>>

\* 30 points in one bucket: the bucket is capped at 25, overall is not
CappedApart == <<[category |-> "liability_exposure", severity |-> "critical"]>>

OnlyRisks(rs) == risks = rs /\ missingTerms = <<>> /\ blockers = <<>>

\* C25: the sum of the four buckets is not tied to overall: for two low risks of 3.75
\* and 2.5 points in different buckets the sum is strictly greater than overall, for
\* one critical liability_exposure risk it is strictly less
C25_BucketSumNotTied ==
  Scored =>
    /\ OnlyRisks(RoundedApart) => BucketSum(riskScore) > riskScore.overall
    /\ OnlyRisks(CappedApart) => BucketSum(riskScore) < riskScore.overall

\* the score of the two low risks: buckets 4 and 3, overall 6
C25_Witness ==
  /\ Scored
  /\ OnlyRisks(RoundedApart)
  /\ BucketSum(riskScore) = 7
  /\ riskScore.overall = 6
\* ------------------------------------------ claims about stored analyses
\* the score of the claim for the findings rs, ts, bs: overall and buckets from the
\* tables of the claims, the grade from the bands
TermPoints4(ts) ==
  4 * (CountField(ts, "importance", "required") * PENALTY["required"]
       + CountField(ts, "importance", "recommended") * PENALTY["recommended"]
       + CountField(ts, "importance", "optional") * PENALTY["optional"])

\* the risks of rs whose category is one of cats
Routed(rs, cats) == {i \in 1..Len(rs) : rs[i].category \in cats}

ScoreOf(rs, ts, bs) ==
  LET total == SumOver(rs, 1..Len(rs)) + TermPoints4(ts) + 4 * 5 * Len(bs)
  IN  [overall |-> Capped(total, 100),
       breakdown |->
         [missingClauses |-> Capped(SumOver(rs, Routed(rs, {"missing_clause"})) + TermPoints4(ts), 25),
          unfavorableTerms |->
            Capped(SumOver(rs, Routed(rs, {"unfavorable_terms", "termination_risk",
                                           "payment_risk"})), 25),
          complianceIssues |->
            Capped(SumOver(rs, Routed(rs, {"compliance_issue", "legal_ambiguity"})), 25),
          liabilityExposure |-> Capped(SumOver(rs, Routed(rs, {"liability_exposure"})), 25)],
       grade |-> CHOOSE g \in RiskGrade : g \in Band(Capped(total, 100))]

\* C26: every analysis held in documentStore carries the score of its own stored
\* risks, missing terms and blockers, after every upload, reanalyze and delete
C26_StoredScoreConsistent ==
  \A id \in DOMAIN documentStore :
    LET analysis == documentStore[id]
    IN  /\ analysis.riskScore =
             calculateRiskScore(analysis.risks, analysis.missingTerms, analysis.blockers)
        /\ analysis.riskScore =
             ScoreOf(analysis.risks, analysis.missingTerms, analysis.blockers)

\* a stored analysis with risks, missing terms and blockers that was reanalyzed after
\* its upload, another one having been deleted
C26_Witness ==
  /\ reply.route = "reanalyze"
  /\ reply.status = 200
  /\ issued = 2
  /\ \E id \in DOMAIN documentStore :
       /\ DOMAIN documentStore = {id}
       /\ documentStore[id].analyzedAt > documentStore[id].uploadedAt
       /\ documentStore[id].risks # <<>>
       /\ documentStore[id].missingTerms # <<>>
       /\ documentStore[id].blockers # <<>>
       /\ documentStore[id].riskScore.overall > 0
\* ------------------------------------------ claims about deal associations
\* the places, deal and position, at which documentId is listed
Listings(documentId) ==
  UNION {{<<dealId, k>> : k \in {j \in 1..Len(dealDocuments[dealId]) :
                                   dealDocuments[dealId][j] = documentId}} :
         dealId \in DOMAIN dealDocuments}

\* C27, the states: every documentId listed under a deal is a key of documentStore
\* and is listed once
AssociationsSound ==
  \A documentId \in DocumentIds :
    /\ Listings(documentId) # {} => documentId \in DOMAIN documentStore
    /\ Cardinality(Listings(documentId)) <= 1

\* C27: after every sequence and interleaving of uploads, deletes and reanalyzes,
\* every listed documentId is stored and listed once; a delete of documentId leaves it
\* neither in documentStore nor in any deal's list; an upload whose analysis fails
\* changes neither map
C27_StoreAndDealsAgree ==
  [][/\ AssociationsSound
     /\ AssociationsSound'
     /\ \A documentId \in DocumentIds :
          DeleteDocumentOf(documentId) =>
            /\ documentId \notin DOMAIN documentStore'
            /\ \A dealId \in DOMAIN dealDocuments' :
                 \A k \in 1..Len(dealDocuments'[dealId]) :
                   dealDocuments'[dealId][k] # documentId
     /\ UploadFails => UNCHANGED <<documentStore, dealDocuments>>
    ]_vars

\* one of two documents uploaded to the same deal has been deleted while nothing
\* else was in progress: the other is stored and listed, the deleted one is neither
C27_Witness ==
  /\ reply.route = "delete"
  /\ reply.deleted
  /\ issued = 2
  /\ uploads = {}
  /\ \E kept \in DocumentIds :
       /\ DOMAIN documentStore = {kept}
       /\ \E dealId \in DOMAIN dealDocuments : dealDocuments[dealId] = <<kept>>
       /\ \A dealId \in DOMAIN dealDocuments : Len(dealDocuments[dealId]) <= 1
\* ------------------------------------------------- claims about logout
IsAuthenticated(portalId) == portalId \in DOMAIN tokenStorage

Rejected401(r) == "status" \in DOMAIN r /\ r.status = 401

\* C28: a logout of a portal leaves it unauthenticated; an unauthenticated portal
\* becomes authenticated only by storeTokens or by the completion of
\* exchangeCodeForTokens for it, also when a refreshTokens call for it is in flight;
\* requireAuth answers every request of an unauthenticated portal with 401
C28_LogoutHolds ==
  [][\A portalId \in Portals :
       /\ LogoutOf(portalId) => ~IsAuthenticated(portalId)'
       /\ (~IsAuthenticated(portalId) /\ IsAuthenticated(portalId)') =>
            (StoreTokensOf(portalId) \/ ExchangeCompleteOf(portalId))
       /\ (~IsAuthenticated(portalId) /\ RequireAuthOf(portalId)) =>
            Rejected401(authReply')
    ]_vars

\* ------------------------------------------------- claims about temporary files
\* C29: every temporary file of an upload request is removed by the time the
\* request is answered, whatever the outcome: a file on disk belongs to an upload
\* whose analysis is still awaited
C29_TempFilesRemoved ==
  \A file \in disk :
    \E u \in uploads : file = [request |-> "upload", n |-> u.documentId]

\* ------------------------------------------------- claims about monotonicity
\* the list s without its i-th element
Without(s, i) == [j \in 1..(Len(s) - 1) |-> IF j < i THEN s[j] ELSE s[j + 1]]

\* the letters from best to worst
LETTER_RANK == [A |-> 1, B |-> 2, C |-> 3, D |-> 4, F |-> 5]

\* the score `more` is nowhere below the score `less`
NowhereBelow(more, less) ==
  /\ more.overall >= less.overall
  /\ \A b \in DOMAIN less.breakdown : more.breakdown[b] >= less.breakdown[b]
  /\ LETTER_RANK[more.grade] >= LETTER_RANK[less.grade]

\* the scores of the inputs that lack one risk, one missing term or one blocker of
\* the inputs of the state
ScoresOfOneLess ==
  {calculateRiskScore(Without(risks, i), missingTerms, blockers) : i \in 1..Len(risks)}
    \cup {calculateRiskScore(risks, Without(missingTerms, i), blockers) :
             i \in 1..Len(missingTerms)}
    \cup {calculateRiskScore(risks, missingTerms, Without(blockers, i)) :
             i \in 1..Len(blockers)}

\* C30: calculateRiskScore is monotone: with one more risk, missing term or blocker
\* among its inputs, at any position, overall and every bucket are no lower and the
\* grade is no better
C30_Monotone ==
  Scored => \A less \in ScoresOfOneLess : NowhereBelow(riskScore, less)

\* inputs with a finding of each kind scored, the grade strictly worse than that
\* of the inputs without one of them, and one bucket at its cap with and without one
C30_Witness ==
  /\ Scored
  /\ Len(risks) >= 1 /\ Len(missingTerms) >= 1 /\ Len(blockers) >= 1
  /\ \E less \in ScoresOfOneLess : LETTER_RANK[riskScore.grade] > LETTER_RANK[less.grade]
  /\ \E less \in ScoresOfOneLess, b \in Buckets :
       riskScore.breakdown[b] = 25 /\ less.breakdown[b] = 25

====
